---- MODULE Spec2Model ----
(***************************************************************************)
(* Model of the wayback imagery route of alpinesight                       *)
(* (alpinesight-app/app/api/wayback/route.ts): the GET handler, the tile   *)
(* coordinate helper, fetchWithRetry and the worker pool of                *)
(* dedupeTimelineByImage.                                                  *)
(*                                                                         *)
(* JavaScript runs the handler on one thread: code between two awaits is   *)
(* one atomic step.  Each action below is one such run-to-suspension       *)
(* segment, started by the event that resumes it (the request arriving,    *)
(* the catalog promise settling, a fetch attempt settling, a backoff timer *)
(* firing, the last worker's promise resolving).                           *)
(***************************************************************************)
EXTENDS Integers, Sequences, FiniteSets, TLC

(* ---------------- bounds of the model ---------------- *)

\* longest catalog result explored by Spec
MaxTiles == 2

\* number of tiles whose fetch attempts fail in SpecPool
PoolFlaky == 1

\* longest catalog result explored by SpecLive
LiveTiles == 2

\* most messages of the chat in SpecChat
MaxMessages == 2

\* most tool parts of the chat, over all its messages, in SpecChat
MaxParts == 2

\* the distinct marker ids that the callers of the provider use
MaxMarkerIds == 3

\* the places that the props of the viewer name one after the other
MaxPlaces == 2

\* most items of a timeline that the viewer is served
MaxItems == 2

(* ---------------- program constants ---------------- *)

\* fetchWithRetry(url, attempts = 3, ...)
attempts_Four == 3 + 1

attempts == 3
\* fetchWithRetry(..., delayMs = 250)
delayMs == 250
\* a pool that is one worker too wide
concurrency_Nine == 8 + 1

\* dedupeTimelineByImage(timelineRaw, 8)
concurrency == 8
\* parseInt(searchParams.get("zoom") || "15")
DefaultZoom_Eighteen == <<"1", "8">>

DefaultZoom == <<"1", "5">>
\* parseFloat(searchParams.get("lat") || "0")
DefaultCoord == <<"0">>
\* searchParams.get("mode") || "all"
DefaultMode == <<"a", "l", "l">>

(* ---------------- strings and numbers ---------------- *)

\* A string is a sequence of one-character strings; searchParams.get gives
\* null for a parameter that is not in the query.
null == <<"\\null">>

Digits == <<"0", "1", "2", "3", "4", "5", "6", "7", "8", "9">>

IsDigit(c) == \E d \in 1..10 : Digits[d] = c

DigitVal(c) == (CHOOSE d \in 1..10 : Digits[d] = c) - 1

\* JavaScript numbers that the handler meets: NaN, or a decimal with at
\* most three fraction digits, kept as an integer count of thousandths.
Scale == 1000

NaN == [nan |-> TRUE, milli |-> 0]

Num(m) == [nan |-> FALSE, milli |-> m]

\* a || b for strings: null and "" are falsy
OrElse(s, dflt) == IF s = null \/ s = <<>> THEN dflt ELSE s

\* a test for NaN only, which lets 0 pass
Falsy_NaNOnly(x) == x.nan

\* !x for numbers: 0, -0 and NaN are falsy
Falsy(x) == x.nan \/ x.milli = 0

\* length of the longest prefix of s made of digits
RECURSIVE DigitRun(_)
DigitRun(s) ==
    IF s = <<>> \/ ~IsDigit(Head(s)) THEN 0 ELSE 1 + DigitRun(Tail(s))

\* value of a string of digits, read left to right
RECURSIVE DigitsValue(_, _)
DigitsValue(s, acc) ==
    IF s = <<>> THEN acc ELSE DigitsValue(Tail(s), 10 * acc + DigitVal(Head(s)))

\* the first three fraction digits, as thousandths
FractionMilli(s) ==
    LET d(i) == IF i <= Len(s) THEN DigitVal(s[i]) ELSE 0
    IN  100 * d(1) + 10 * d(2) + d(3)

\* parseFloat: optional sign, digits, optional "." and digits; the longest
\* prefix that is a decimal literal is converted, anything else is NaN.
ParseFloat(str) ==
    LET neg   == str # <<>> /\ Head(str) = "-"
        sgn   == str # <<>> /\ Head(str) \in {"-", "+"}
        body  == IF sgn THEN Tail(str) ELSE str
        ni    == DigitRun(body)
        rest  == SubSeq(body, ni + 1, Len(body))
        dot   == rest # <<>> /\ Head(rest) = "."
        fs    == IF dot THEN Tail(rest) ELSE <<>>
        nf    == DigitRun(fs)
        whole == DigitsValue(SubSeq(body, 1, ni), 0)
        frac  == FractionMilli(SubSeq(fs, 1, nf))
        mag   == Scale * whole + frac
    IN  IF ni = 0 /\ nf = 0 THEN NaN
        ELSE Num(IF neg THEN 0 - mag ELSE mag)

\* parseInt with no radix: optional sign and decimal digits; NaN when the
\* string does not start with a digit.
ParseInt(str) ==
    LET neg   == str # <<>> /\ Head(str) = "-"
        sgn   == str # <<>> /\ Head(str) \in {"-", "+"}
        body  == IF sgn THEN Tail(str) ELSE str
        ni    == DigitRun(body)
        whole == DigitsValue(SubSeq(body, 1, ni), 0)
    IN  IF ni = 0 THEN NaN
        ELSE Num(Scale * (IF neg THEN 0 - whole ELSE whole))

(* ---------------- latLngToTile ---------------- *)

\* floor(2^z * num / den), by z doublings of the quotient and remainder
RECURSIVE ScaleByPow2(_, _, _, _)
ScaleByPow2(z, q, r, den) ==
    IF z = 0 THEN q
    ELSE ScaleByPow2(z - 1, 2 * q + (IF 2 * r >= den THEN 1 ELSE 0),
                     (2 * r) % den, den)

FloorPow2Times(z, num, den) == ScaleByPow2(z, num \div den, num % den, den)

\* Math.log(Math.tan(latRad) + 1 / Math.cos(latRad)) / Math.PI in units of
\* 10^-9, tabulated for the latitudes that the requests of the model carry.
Unit == 1000000000

LogTanSecOverPi(latMilli) ==
    CASE latMilli = 0     -> 0
      [] latMilli = 48850 -> 311887469
      [] latMilli = 48000 -> 304771169
      [] latMilli = 46500 -> 292493444

\* 2^z
RECURSIVE Pow2(_)
Pow2(z) == IF z = 0 THEN 1 ELSE 2 * Pow2(z - 1)

\* the column held inside the columns of the zoom level
latLngToTile_Clamped(latMilli, lngMilli, zoom) ==
    LET xTile == FloorPow2Times(zoom, lngMilli + 180 * Scale, 360 * Scale)
        yFrac == Unit - LogTanSecOverPi(latMilli)
        yTile == IF zoom = 0 THEN yFrac \div (2 * Unit)
                 ELSE FloorPow2Times(zoom - 1, yFrac, Unit)
    IN  [x |-> IF xTile > Pow2(zoom) - 1 THEN Pow2(zoom) - 1 ELSE xTile,
         y |-> yTile, z |-> zoom]

\* latLngToTile(lat, lng, zoom); lat and lng in thousandths of a degree
latLngToTile(latMilli, lngMilli, zoom) ==
    LET xTile == FloorPow2Times(zoom, lngMilli + 180 * Scale, 360 * Scale)
        yFrac == Unit - LogTanSecOverPi(latMilli)
        yTile == IF zoom = 0 THEN yFrac \div (2 * Unit)
                 ELSE FloorPow2Times(zoom - 1, yFrac, Unit)
    IN  [x |-> xTile, y |-> yTile, z |-> zoom]

(* ---------------- tile URLs ---------------- *)

\* String.prototype.replace with a string pattern: the first occurrence of
\* the token pat is replaced, the rest of the string is left as it is.
RECURSIVE ReplaceFirst(_, _, _)
ReplaceFirst(s, pat, rep) ==
    IF s = <<>> THEN <<>>
    ELSE IF Head(s) = pat THEN <<rep>> \o Tail(s)
    ELSE <<Head(s)>> \o ReplaceFirst(Tail(s), pat, rep)

\* the row taken from x and the column from y
Materialize_RowIsX(item, coords) ==
    [ releaseNum      |-> item.releaseNum,
      releaseDate     |-> item.releaseDateLabel,
      releaseDatetime |-> item.releaseDatetime,
      title           |-> item.itemTitle,
      tileUrl         |-> ReplaceFirst(
                            ReplaceFirst(
                              ReplaceFirst(item.itemURL, "{level}", ToString(coords.z)),
                              "{row}", ToString(coords.x)),
                            "{col}", ToString(coords.y)),
      provider        |-> item.layerIdentifier ]

\* the body of waybackItems.map(...): one candidate per catalog item
Materialize(item, coords) ==
    [ releaseNum      |-> item.releaseNum,
      releaseDate     |-> item.releaseDateLabel,
      releaseDatetime |-> item.releaseDatetime,
      title           |-> item.itemTitle,
      tileUrl         |-> ReplaceFirst(
                            ReplaceFirst(
                              ReplaceFirst(item.itemURL, "{level}", ToString(coords.z)),
                              "{row}", ToString(coords.y)),
                            "{col}", ToString(coords.x)),
      provider        |-> item.layerIdentifier ]

(* ---------------- image keys ---------------- *)

Base64Alphabet ==
    <<"A", "B", "C", "D", "E", "F", "G", "H", "I", "J", "K", "L", "M",
      "N", "O", "P", "Q", "R", "S", "T", "U", "V", "W", "X", "Y", "Z",
      "a", "b", "c", "d", "e", "f", "g", "h", "i", "j", "k", "l", "m",
      "n", "o", "p", "q", "r", "s", "t", "u", "v", "w", "x", "y", "z",
      "0", "1", "2", "3", "4", "5", "6", "7", "8", "9", "+", "/">>

B64Char(n) == Base64Alphabet[n + 1]

\* Buffer.from(buf).toString('base64'): three bytes give four characters,
\* a last group of one or two bytes is padded with "=".
RECURSIVE Base64(_)
Base64(bytes) ==
    IF bytes = <<>> THEN <<>>
    ELSE IF Len(bytes) = 1 THEN
        << B64Char(bytes[1] \div 4), B64Char((bytes[1] % 4) * 16), "=", "=" >>
    ELSE IF Len(bytes) = 2 THEN
        << B64Char(bytes[1] \div 4),
           B64Char((bytes[1] % 4) * 16 + bytes[2] \div 16),
           B64Char((bytes[2] % 16) * 4), "=" >>
    ELSE
        << B64Char(bytes[1] \div 4),
           B64Char((bytes[1] % 4) * 16 + bytes[2] \div 16),
           B64Char((bytes[2] % 16) * 4 + bytes[3] \div 64),
           B64Char(bytes[3] % 64) >>
        \o Base64(SubSeq(bytes, 4, Len(bytes)))

(* ---------------- chronological sort ---------------- *)

\* new Date(t).getTime() for a release time t: an integral number of
\* milliseconds inside the range of Date is its own time value
GetTime(t) == t

\* the comparator of uniqueItems.sort
Compare(a, b) == GetTime(a.releaseDatetime) - GetTime(b.releaseDatetime)

\* insert x in front of the elements that compare equal to it
RECURSIVE InsertSorted_BeforeEquals(_, _)
InsertSorted_BeforeEquals(x, s) ==
    IF s = <<>> THEN <<x>>
    ELSE IF Compare(Head(s), x) >= 0 THEN <<x>> \o s
    ELSE <<Head(s)>> \o InsertSorted_BeforeEquals(x, Tail(s))

\* insert x behind every element that does not compare greater than it
RECURSIVE InsertSorted(_, _)
InsertSorted(x, s) ==
    IF s = <<>> THEN <<x>>
    ELSE IF Compare(Head(s), x) > 0 THEN <<x>> \o s
    ELSE <<Head(s)>> \o InsertSorted(x, Tail(s))

\* the unique items left in the order of completion
SortChronologically_Unsorted(s) == s

\* Array.prototype.sort with the comparator above (a stable sort)
RECURSIVE SortChronologically(_)
SortChronologically(s) ==
    IF s = <<>> THEN <<>>
    ELSE InsertSorted(s[Len(s)], SortChronologically(SubSeq(s, 1, Len(s) - 1)))

(* ---------------- the request and its environment ---------------- *)

\* values of the lat and lng query parameters
LatParams == { null, <<>>, <<"0">>, <<"0", ".", "0">>, <<"x">>,
               <<"4", "8", ".", "8", "5">> }

LngParams == { null, <<>>, <<"0">>, <<"-", "0">>, <<"x">>,
               <<"2", ".", "3", "5">> }

ZoomParams == { null, <<"3">> }

ModeParams == { null, <<"a", "l", "l">>, <<"c", "h", "a", "n", "g", "e", "s">> }

Requests == [lat : LatParams, lng : LngParams, zoom : ZoomParams, mode : ModeParams]

\* the requests that name a place off the equator and the prime meridian
PlacedRequests ==
    { r \in Requests : /\ r.lat = <<"4", "8", ".", "8", "5">>
                       /\ r.lng = <<"2", ".", "3", "5">>
                       /\ r.zoom = null => r.mode # <<"a", "l", "l">>
                       /\ r.zoom # null => r.mode # null }

\* release times of catalog items (milliseconds), two of them so that
\* equal and unequal times both occur
ReleaseTimes == {1000, 2000}

\* tile images as byte sequences; the first two differ only in length
Images == { <<0>>, <<0, 0>> }

\* the n-th release of the provider with release time t
WaybackItem(n, t) ==
    [ releaseNum       |-> n,
      releaseDateLabel |-> <<"r", ToString(n)>>,
      releaseDatetime  |-> t,
      itemTitle        |-> <<"World Imagery (Wayback #", ToString(n), ")">>,
      itemURL          |-> <<"https://wayback/tile/", ToString(n), "/",
                             "{level}", "/", "{row}", "/", "{col}">>,
      layerIdentifier  |-> <<"WB_", ToString(n)>> ]

\* catalog results: up to MaxTiles items in any chronological order
Catalogs ==
    UNION { { [k \in 1..n |-> WaybackItem(k, ts[k])] : ts \in [1..n -> ReleaseTimes] }
            : n \in 0..MaxTiles }

\* The provider as the request finds it: the items the catalog returns, the
\* image the tile server holds for each of them, and for each of them the
\* number of fetch attempts that fail before one succeeds (attempt i of
\* tile k fails exactly when i <= failsFirst[k]), and the position of the
\* tile whose fetch never settles (0 when every fetch settles).
Providers ==
    UNION { { [items |-> c, images |-> imgs, failsFirst |-> ff, hangsAt |-> 0]
              : imgs \in [1..Len(c) -> Images],
                ff \in [1..Len(c) -> 0..attempts] } : c \in Catalogs }

\* the end-to-end scenario: five snapshots that the catalog lists out of
\* chronological order, the second and the fourth with byte-identical
\* tiles, and no fetch failing
ExampleProvider ==
    [ items      |-> << WaybackItem(1, 3000), WaybackItem(2, 1000),
                        WaybackItem(3, 5000), WaybackItem(4, 2000),
                        WaybackItem(5, 4000) >>,
      images     |-> << <<1>>, <<2, 0>>, <<3>>, <<2, 0>>, <<2>> >>,
      failsFirst |-> << 0, 0, 0, 0, 0 >>,
      hangsAt    |-> 0 ]

\* the value of a property that an object does not have
undefined == <<"\\undefined">>

\* a catalog result with an item that lacks its URL template
MalformedProviders ==
    { [items |-> << [WaybackItem(1, 1000) EXCEPT !.itemURL = undefined] >>,
       images |-> << <<0>> >>, failsFirst |-> <<0>>, hangsAt |-> 0] }

\* providers with one item more than the pool has workers: the catalog
\* lists the items newest first, the tiles before the last all hold the
\* same image, and only fetches of the first PoolFlaky tiles fail
PoolTiles == concurrency + 1

PoolProviders ==
    { [ items      |-> [k \in 1..PoolTiles |-> WaybackItem(k, 1000 * (PoolTiles - k))],
        images     |-> [k \in 1..PoolTiles |-> IF k = PoolTiles THEN <<0>> ELSE <<0, 0>>],
        failsFirst |-> [k \in 1..PoolTiles |->
                          IF k <= PoolFlaky THEN ff[k] ELSE 0],
        hangsAt    |-> 0 ]
      : ff \in [1..PoolFlaky -> 0..attempts] }

NoCoords == [x |-> 0, y |-> 0, z |-> 0]

Workers == 1..concurrency

VARIABLES
    request,            \* the query parameters of the request
    pc,                 \* where GET is: "start", "catalog", "pool", "done"
    catalogCalls,       \* catalog queries issued so far
    provider,           \* the catalog and the tile server, see Providers
    tileCoords,         \* const tileCoords
    timelineRaw,        \* const timelineRaw
    index,              \* let index of dedupeTimelineByImage
    uniqueImageHashes,  \* const uniqueImageHashes
    uniqueItems,        \* const uniqueItems
    errors,             \* const errors
    wstate,             \* per worker: "idle", "fetch", "sleep" or "done"
    current,            \* per worker: position in timelineRaw of its tile
    attempt,            \* per worker: the i of fetchWithRetry
    inFlight,           \* fetch calls issued and not yet settled
    fetchCount,         \* per candidate: fetch calls issued for its tileUrl
    timerMs,            \* per worker: delay of its pending setTimeout, or 0
    waitedMs,           \* per candidate: backoff delays that have elapsed
    claimedBy,          \* per candidate: the workers that took it from index
    firstDone,          \* per image: the candidate fetched first with it
    responses           \* responses returned by GET

\* the chat page (contexts/globe-context.tsx): GlobeProvider and Chat
VARIABLES
    messages,           \* messages of useChat; the id of a message is its position
    effectDue,          \* messages has changed and the tool-part effect has not run
    isGlobeOpen,        \* GlobeProvider: isGlobeOpen
    markers,            \* GlobeProvider: markers, as the list of their ids
    pointOfView,        \* GlobeProvider: pointOfView, as the id of the place
    processedToolCalls, \* Chat: processedToolCalls.current
    lastAssistantMessageId,          \* Chat: lastAssistantMessageId.current
    satelliteCloseIssuedForMessage,  \* Chat: satelliteCloseIssuedForMessage.current
    geocoding,          \* toolCallIds whose geocodeLocation call is pending
    markerTimers,       \* toolCallIds whose 400 ms timer is pending, oldest first
    mounted,            \* tool parts whose SatelliteImageViewer has mounted
    startCloses,        \* ids of the messages at which the globe was closed on start
    executions,         \* toolCallIds whose completed side effect was run, in order
    shown               \* toolCallIds whose delayed addMarker has run

\* the chat page with the satellite fallback (the Chat of lines 188-581)
VARIABLES
    pendingSatelliteIntent,   \* pendingSatelliteIntent.current: "null", or
                              \* "coords" (lat and lng given) or "guess"
    satelliteFallbackTimer,   \* the pending 2.5 s timer and what its callback sees
    syntheticSatelliteShown,  \* syntheticSatelliteShown.current
    fallbackGeocoding,        \* calls of triggerSatelliteFallback awaiting geocodeLocation
    serverLed                 \* requests for which the effect saw the assistant's satellite tool

\* the viewer (components/satellite-image-viewer.tsx): SatelliteImageViewer
VARIABLES
    place,              \* the props latitude and longitude, as the number of the place
    archive,            \* per place: how many items /api/wayback serves for it
    callbackStable,     \* the prop onAnalysisComplete is the same function at every render
    timelineFetches,    \* places whose fetchTimeline call awaits its response
    timeline,           \* useState: timeline
    currentIndex,       \* useState: currentIndex
    loading,            \* useState: loading
    error,              \* useState: error, as whether it is set
    detections,         \* useState: detections, a function of the indices stored
    autoplayDone,       \* useState: autoplayDone
    analysisSentRef,    \* analysisSentRef.current
    runs,               \* calls of runDetectionsSequentially that have not returned
    loads,              \* how many timelines fetchTimeline has set
    requestLog,         \* per run: the indices whose detection was requested, in order
    settleLog,          \* per run: the indices whose detection request has settled
    lastControl,        \* the control that was used last: a button or the slider
    analysisCalls       \* the calls of onAnalysisComplete

chatVars == << messages, effectDue, isGlobeOpen, markers, pointOfView,
               processedToolCalls, lastAssistantMessageId,
               satelliteCloseIssuedForMessage, geocoding, markerTimers,
               mounted, startCloses, executions, shown >>

fallbackVars == << pendingSatelliteIntent, satelliteFallbackTimer,
                   syntheticSatelliteShown, fallbackGeocoding, serverLed >>

routeVars == << request, provider, pc, catalogCalls, tileCoords, timelineRaw,
                index, uniqueImageHashes, uniqueItems, errors, wstate, current,
                attempt, inFlight, fetchCount, timerMs, waitedMs, claimedBy,
                firstDone, responses >>

viewerVars == << place, archive, callbackStable, timelineFetches, timeline,
                currentIndex, loading, error, detections, autoplayDone,
                analysisSentRef, runs, loads, requestLog, settleLog,
                lastControl, analysisCalls >>

vars == << routeVars, chatVars, fallbackVars, viewerVars >>

poolVars == << index, uniqueImageHashes, uniqueItems, errors, wstate, current,
               attempt, inFlight, fetchCount, timerMs, waitedMs, claimedBy,
               firstDone >>

\* lines 72-75: the parsed parameters
lat == ParseFloat(OrElse(request.lat, DefaultCoord))

lng == ParseFloat(OrElse(request.lng, DefaultCoord))

zoom_AlwaysDefault == ParseInt(DefaultZoom)

zoom == ParseInt(OrElse(request.zoom, DefaultZoom))

mode == OrElse(request.mode, DefaultMode)

\* no fallback timer is pending
NoTimer == [pending |-> FALSE, request |-> 0, markers |-> <<>>, open |-> FALSE]

\* the chat page as it mounts
ChatMounted ==
    /\ messages = <<>>
    /\ effectDue = FALSE
    /\ isGlobeOpen = FALSE
    /\ markers = <<>>
    /\ pointOfView = null
    /\ processedToolCalls = {}
    /\ lastAssistantMessageId = null
    /\ satelliteCloseIssuedForMessage = FALSE
    /\ geocoding = {}
    /\ markerTimers = <<>>
    /\ mounted = {}
    /\ startCloses = <<>>
    /\ executions = <<>>
    /\ shown = {}
    /\ pendingSatelliteIntent = "null"
    /\ satelliteFallbackTimer = NoTimer
    /\ syntheticSatelliteShown = FALSE
    /\ fallbackGeocoding = {}
    /\ serverLed = {}

\* const [detections, setDetections] = useState({})
NoDetections == [i \in {} |-> 0]

\* the page without a viewer: the state of a viewer that has not fetched
ViewerUnmounted ==
    /\ place = 0
    /\ archive = <<>>
    /\ callbackStable = TRUE
    /\ timelineFetches = {}
    /\ timeline = <<>>
    /\ currentIndex = 0
    /\ loading = TRUE
    /\ error = FALSE
    /\ detections = NoDetections
    /\ autoplayDone = FALSE
    /\ analysisSentRef = FALSE
    /\ runs = {}
    /\ loads = 0
    /\ requestLog = <<>>
    /\ settleLog = <<>>
    /\ lastControl = "none"
    /\ analysisCalls = <<>>

\* GET has been called and has not run yet
HandlerStart ==
    /\ pc = "start"
    /\ catalogCalls = <<>>
    /\ tileCoords = NoCoords
    /\ timelineRaw = <<>>
    /\ index = 0
    /\ uniqueImageHashes = {}
    /\ uniqueItems = <<>>
    /\ errors = <<>>
    /\ wstate = [w \in Workers |-> "idle"]
    /\ current = [w \in Workers |-> 0]
    /\ attempt = [w \in Workers |-> 0]
    /\ inFlight = 0
    /\ fetchCount = <<>>
    /\ timerMs = [w \in Workers |-> 0]
    /\ waitedMs = <<>>
    /\ claimedBy = <<>>
    /\ firstDone = {}
    /\ responses = <<>>

InitHandler ==
    /\ ChatMounted
    /\ ViewerUnmounted
    /\ HandlerStart

\* the provider of the requests that name no place
SmallProvider ==
    [ items |-> << WaybackItem(1, 1000) >>, images |-> << <<0>> >>,
      failsFirst |-> <<0>>, hangsAt |-> 0 ]

Init ==
    /\ request \in Requests
    /\ provider \in IF request \in PlacedRequests
                     THEN Providers \cup MalformedProviders \cup {ExampleProvider}
                     ELSE {SmallProvider}
    /\ InitHandler

(* ---------------- dedupeTimelineByImage ---------------- *)

\* the pool of one dedupeTimelineByImage call, as one value
Pool ==
    [ index |-> index, wstate |-> wstate, current |-> current,
      attempt |-> attempt, inFlight |-> inFlight, fetchCount |-> fetchCount,
      timerMs |-> timerMs, waitedMs |-> waitedMs, claimedBy |-> claimedBy ]

\* the cursor is moved on by two for each tile taken
WorkerLoop_SkipsOne(w, p, n) ==
    IF p.index < n
    THEN [ p EXCEPT !.index = @ + 2,
                    !.current[w] = p.index + 1,
                    !.attempt[w] = 1,
                    !.wstate[w] = "fetch",
                    !.inFlight = @ + 1,
                    !.fetchCount[p.index + 1] = @ + 1,
                    !.claimedBy[p.index + 1] = Append(@, w) ]
    ELSE [ p EXCEPT !.wstate[w] = "done" ]

\* worker(), lines 40-43, from the loop test to the first await: either the
\* worker claims timelineRaw[index++] and issues the first fetch of
\* fetchWithRetry, or the loop ends and the worker's promise resolves.
WorkerLoop(w, p, n) ==
    IF p.index < n
    THEN [ p EXCEPT !.index = @ + 1,
                    !.current[w] = p.index + 1,
                    !.attempt[w] = 1,
                    !.wstate[w] = "fetch",
                    !.inFlight = @ + 1,
                    !.fetchCount[p.index + 1] = @ + 1,
                    !.claimedBy[p.index + 1] = Append(@, w) ]
    ELSE [ p EXCEPT !.wstate[w] = "done" ]

\* the worker returns after a tile that could not be fetched
Continue_Returns(w, p, n) == [ p EXCEPT !.wstate[w] = "done" ]

\* line 46, continue: the worker goes back to the loop test
Continue(w, p, n) == WorkerLoop(w, p, n)

\* Array.from({ length: concurrency }, () => worker()): the workers are
\* started one after the other, each running up to its first await
RECURSIVE StartWorkers(_, _, _)
StartWorkers(w, p, n) ==
    IF w > concurrency THEN p
    ELSE StartWorkers(w + 1, WorkerLoop(w, p, n), n)

SetPool(p) ==
    /\ index' = p.index
    /\ wstate' = p.wstate
    /\ current' = p.current
    /\ attempt' = p.attempt
    /\ inFlight' = p.inFlight
    /\ fetchCount' = p.fetchCount
    /\ timerMs' = p.timerMs
    /\ waitedMs' = p.waitedMs
    /\ claimedBy' = p.claimedBy

\* the fetch of the attempt has settled
Settled(p) == [p EXCEPT !.inFlight = @ - 1]

\* giving up one attempt early
GivesUp_Early(i) == i = attempts - 1

\* line 26: the failed attempt was the last one
GivesUp(i) == i = attempts

\* line 20: the loop of fetchWithRetry goes on with attempt i
LoopGoesOn(i) == i <= attempts

\* the same delay before every retry
BackoffDelay_Constant(i) == delayMs

\* line 27: the delay of the timer after failed attempt i
BackoffDelay(i) == delayMs * i

\* line 27: the worker awaits the timer
Sleeping(p, w) ==
    [p EXCEPT !.wstate[w] = "sleep", !.timerMs[w] = BackoffDelay(p.attempt[w])]

\* the entry names the candidate by its title
ErrorEntry_Title(cand) == [url |-> cand.title, error |-> "fetch-failed"]

\* line 45: the entry of errors for a candidate that could not be fetched
ErrorEntry(cand) == [url |-> cand.tileUrl, error |-> "fetch-failed"]

\* a failed tile that is not reported
PushError_Dropped(errs, cand) == errs

\* line 45: the tile is reported as failed
PushError(errs, cand) == Append(errs, ErrorEntry(cand))

\* an image counts as seen when it has not been seen
Seen_Negated(hashes, b64) == b64 \notin hashes

\* line 49: uniqueImageHashes.has(b64)
Seen(hashes, b64) == b64 \in hashes

\* only the image seen last is remembered
Remember_LastOnly(hashes, b64) == {b64}

\* line 50: uniqueImageHashes.add(b64)
Remember(hashes, b64) == hashes \cup {b64}

\* the candidate is not appended
Retain_Dropped(items, cand) == items

\* line 51: uniqueItems.push(current)
Retain(items, cand) == Append(items, cand)

\* every fetched candidate is kept
KeepIfNew_Always(hashes, items, cand, b64) ==
    [hashes |-> hashes \cup {b64}, items |-> Append(items, cand)]

\* lines 49-52: the candidate is kept unless its image has been seen
KeepIfNew(hashes, items, cand, b64) ==
    IF ~Seen(hashes, b64)
    THEN [hashes |-> Remember(hashes, b64), items |-> Retain(items, cand)]
    ELSE [hashes |-> hashes, items |-> items]

\* the tile server lets attempt i for the tile at position k fail
AttemptFailsAt(k, i) == i <= provider.failsFirst[k]

\* a fetch that is given up after some time
Hangs_TimesOut(k) == FALSE

\* the fetch of the tile at position k settles neither way
Hangs(k) == provider.hangsAt = k

(* ---------------- GET ---------------- *)

Respond(status, body) ==
    /\ responses' = Append(responses, [status |-> status, body |-> body])
    /\ pc' = "done"

\* the parameters are tested only after the catalog query has been issued
RejectMissing_AfterQuery ==
    /\ pc = "start"
    /\ Falsy(lat) \/ Falsy(lng)
    /\ catalogCalls' = Append(catalogCalls, [fn |-> "getWaybackItems", args |-> <<>>])
    /\ Respond(400, [error |-> "Missing latitude or longitude"])
    /\ UNCHANGED << chatVars, fallbackVars, viewerVars, request, provider, tileCoords, timelineRaw >>
    /\ UNCHANGED poolVars

\* lines 71-84: lat or lng is falsy
RejectMissing ==
    /\ pc = "start"
    /\ Falsy(lat) \/ Falsy(lng)
    /\ Respond(400, [error |-> "Missing latitude or longitude"])
    /\ UNCHANGED << chatVars, fallbackVars, viewerVars, request, provider, catalogCalls, tileCoords, timelineRaw >>
    /\ UNCHANGED poolVars

\* every request asks for all snapshots
CatalogQuery_AlwaysAll(m, la, ln, z) ==
    [fn |-> "getWaybackItems", args |-> <<>>]

\* lines 88-99: the catalog query that the mode selects
CatalogQuery(m, la, ln, z) ==
    IF m = <<"a", "l", "l">>
    THEN [fn |-> "getWaybackItems", args |-> <<>>]
    ELSE [fn |-> "getWaybackItemsWithLocalChanges", args |-> <<la, ln, z>>]

\* lines 71-99: the parameters pass and the catalog query is issued
QueryCatalog ==
    /\ pc = "start"
    /\ ~(Falsy(lat) \/ Falsy(lng))
    /\ catalogCalls' = Append(catalogCalls,
          CatalogQuery(mode, lat.milli, lng.milli, zoom.milli \div Scale))
    /\ pc' = "catalog"
    /\ UNCHANGED << chatVars, fallbackVars, viewerVars, request, provider, tileCoords, timelineRaw, responses >>
    /\ UNCHANGED poolVars

\* the error object sent without the status option
Fail500_NoStatus == Respond(200, [error |-> "Failed to fetch wayback imagery"])

\* lines 136-142: the catch of GET
Fail500 == Respond(500, [error |-> "Failed to fetch wayback imagery"])

\* a rejected catalog query answered as an empty catalog
CatalogThrows_EmptyTimeline ==
    /\ pc = "catalog"
    /\ Respond(200, [ location   |-> [lat |-> lat.milli, lng |-> lng.milli],
                      zoom       |-> zoom.milli \div Scale,
                      tileCoords |-> tileCoords,
                      count      |-> 0,
                      timeline   |-> <<>>,
                      errors     |-> <<>> ])
    /\ UNCHANGED << chatVars, fallbackVars, viewerVars, request, provider, catalogCalls, tileCoords, timelineRaw >>
    /\ UNCHANGED poolVars

\* the catalog query rejects
CatalogThrows ==
    /\ pc = "catalog"
    /\ Fail500
    /\ UNCHANGED << chatVars, fallbackVars, viewerVars, request, provider, catalogCalls, tileCoords, timelineRaw >>
    /\ UNCHANGED poolVars

\* item.itemURL.replace(...) throws when the item has no itemURL
WellFormed(items) == \A k \in 1..Len(items) : items[k].itemURL # undefined

\* lines 101-121: the catalog query resolves and building the candidates
\* throws
CatalogMalformed ==
    /\ pc = "catalog"
    /\ ~WellFormed(provider.items)
    /\ tileCoords' = latLngToTile(lat.milli, lng.milli, zoom.milli \div Scale)
    /\ Fail500
    /\ UNCHANGED << chatVars, fallbackVars, viewerVars, request, provider, catalogCalls, timelineRaw >>
    /\ UNCHANGED poolVars

\* lines 101-125: the catalog query resolves; the candidates are built and
\* the workers of dedupeTimelineByImage are started
CatalogReturns ==
    /\ pc = "catalog"
    /\ WellFormed(provider.items)
    /\ LET items  == provider.items
           coords == latLngToTile(lat.milli, lng.milli, zoom.milli \div Scale)
           raw    == [k \in 1..Len(items) |-> Materialize(items[k], coords)]
           fresh  == [ index |-> 0,
                       wstate |-> [w \in Workers |-> "idle"],
                       current |-> [w \in Workers |-> 0],
                       attempt |-> [w \in Workers |-> 0],
                       inFlight |-> 0,
                       fetchCount |-> [k \in 1..Len(items) |-> 0],
                       timerMs |-> [w \in Workers |-> 0],
                       waitedMs |-> [k \in 1..Len(items) |-> 0],
                       claimedBy |-> [k \in 1..Len(items) |-> <<>>] ]
       IN  /\ tileCoords' = coords
           /\ timelineRaw' = raw
           /\ SetPool(StartWorkers(1, fresh, Len(raw)))
    /\ pc' = "pool"
    /\ uniqueImageHashes' = {}
    /\ uniqueItems' = <<>>
    /\ errors' = <<>>
    /\ firstDone' = {}
    /\ UNCHANGED << chatVars, fallbackVars, viewerVars, request, provider, catalogCalls, responses >>

\* the last failed attempt rejects the pool, and GET answers with its catch
FailAttempt_Escalates(w) ==
    /\ wstate[w] = "fetch"
    /\ ~Hangs(current[w])
    /\ AttemptFailsAt(current[w], attempt[w])
    /\ IF GivesUp(attempt[w])
       THEN /\ Fail500
            /\ SetPool(Settled(Pool))
            /\ errors' = errors
       ELSE /\ SetPool(Sleeping(Settled(Pool), w))
            /\ errors' = errors
            /\ UNCHANGED << pc, responses >>
    /\ UNCHANGED << chatVars, fallbackVars, viewerVars, request, provider, catalogCalls, tileCoords, timelineRaw,
                    uniqueImageHashes, uniqueItems, firstDone >>

\* fetchWithRetry, lines 25-28, and worker, lines 44-47: an attempt has
\* failed; after the last one the tile is recorded in errors and the worker
\* goes on, before it the worker waits delayMs * i
FailAttempt(w) ==
    /\ wstate[w] = "fetch"
    /\ ~Hangs(current[w])
    /\ AttemptFailsAt(current[w], attempt[w])
    /\ IF GivesUp(attempt[w])
       THEN /\ errors' = PushError(errors, timelineRaw[current[w]])
            /\ SetPool(Continue(w, Settled(Pool), Len(timelineRaw)))
       ELSE /\ errors' = errors
            /\ SetPool(Sleeping(Settled(Pool), w))
    /\ UNCHANGED << chatVars, fallbackVars, viewerVars, request, provider, pc, catalogCalls, tileCoords, timelineRaw,
                    uniqueImageHashes, uniqueItems, firstDone, responses >>

\* line 23: the response is not ok
AttemptHttpError(w) == FailAttempt(w)

\* lines 22 and 24: fetch or arrayBuffer rejects
AttemptThrows(w) == FailAttempt(w)

\* lines 27, 20-22 and 30: the timer of the backoff fires; the loop goes on
\* with the next attempt, or it ends and fetchWithRetry returns null
\* the timer of the backoff never fires
BackoffElapsed_NeverFires(w) ==
    /\ wstate[w] = "sleep"
    /\ FALSE
    /\ UNCHANGED vars

BackoffElapsed(w) ==
    /\ wstate[w] = "sleep"
    /\ LET woken == [Pool EXCEPT !.timerMs[w] = 0,
                                 !.waitedMs[current[w]] = @ + timerMs[w]]
       IN  IF LoopGoesOn(attempt[w] + 1)
           THEN /\ SetPool([woken EXCEPT !.wstate[w] = "fetch",
                                         !.attempt[w] = @ + 1,
                                         !.inFlight = @ + 1,
                                         !.fetchCount[current[w]] = @ + 1])
                /\ errors' = errors
           ELSE /\ SetPool(Continue(w, woken, Len(timelineRaw)))
                /\ errors' = PushError(errors, timelineRaw[current[w]])
    /\ UNCHANGED << chatVars, fallbackVars, viewerVars, request, provider, pc, catalogCalls, tileCoords, timelineRaw,
                    uniqueImageHashes, uniqueItems, firstDone, responses >>

\* lines 22-24 and 48-52: the attempt returns the bytes of the tile; the
\* worker keeps the candidate if its image is new and goes on.  Encoding an
\* ArrayBuffer does not throw, so nothing enters the catch of lines 53-55.
AttemptSucceeds(w) ==
    /\ wstate[w] = "fetch"
    /\ ~Hangs(current[w])
    /\ ~AttemptFailsAt(current[w], attempt[w])
    /\ LET img  == provider.images[current[w]]
           b64  == Base64(img)
           kept == KeepIfNew(uniqueImageHashes, uniqueItems,
                             timelineRaw[current[w]], b64)
       IN  /\ uniqueImageHashes' = kept.hashes
           /\ uniqueItems' = kept.items
           /\ firstDone' = IF \E f \in firstDone : f.image = img
                           THEN firstDone
                           ELSE firstDone \cup {[image |-> img, tile |-> current[w]]}
    /\ SetPool(WorkerLoop(w, Settled(Pool), Len(timelineRaw)))
    /\ UNCHANGED << chatVars, fallbackVars, viewerVars, request, provider, pc, catalogCalls, tileCoords, timelineRaw,
                    errors, responses >>

\* the handler goes on as soon as one worker has returned
AllReturned_Race == \E w \in Workers : wstate[w] = "done"

\* line 60, await Promise.all(workers): every worker's promise has resolved
AllReturned == \A w \in Workers : wstate[w] = "done"

\* a payload that also carries an error field
Payload_WithError(tl, errs) ==
    [ location   |-> [lat |-> lat.milli, lng |-> lng.milli],
      zoom       |-> zoom.milli \div Scale,
      tileCoords |-> tileCoords,
      count      |-> Len(tl),
      timeline   |-> tl,
      errors     |-> errs,
      error      |-> IF errs = <<>> THEN null ELSE "fetch-failed" ]

\* lines 128-135: the body of the 200 response
Payload(tl, errs) ==
    [ location   |-> [lat |-> lat.milli, lng |-> lng.milli],
      zoom       |-> zoom.milli \div Scale,
      tileCoords |-> tileCoords,
      count      |-> Len(tl),
      timeline   |-> tl,
      errors     |-> errs ]

\* an empty result is answered as a failure
JoinAndRespond_EmptyFails ==
    /\ pc = "pool"
    /\ AllReturned
    /\ uniqueItems' = SortChronologically(uniqueItems)
    /\ IF uniqueItems = <<>>
       THEN Fail500
       ELSE Respond(200, Payload(uniqueItems', errors))
    /\ UNCHANGED << chatVars, fallbackVars, viewerVars, request, provider, catalogCalls, tileCoords, timelineRaw,
                    index, uniqueImageHashes, errors, wstate, current, attempt,
                    inFlight, fetchCount, timerMs, waitedMs, claimedBy,
                    firstDone >>

\* lines 60-66 and 126-135: every worker has returned; the unique items are
\* sorted and the success payload is returned
JoinAndRespond ==
    /\ pc = "pool"
    /\ AllReturned
    /\ uniqueItems' = SortChronologically(uniqueItems)
    /\ Respond(200, Payload(uniqueItems', errors))
    /\ UNCHANGED << chatVars, fallbackVars, viewerVars, request, provider, catalogCalls, tileCoords, timelineRaw,
                    index, uniqueImageHashes, errors, wstate, current, attempt,
                    inFlight, fetchCount, timerMs, waitedMs, claimedBy,
                    firstDone >>

Next ==
    \/ RejectMissing
    \/ QueryCatalog
    \/ CatalogThrows
    \/ CatalogMalformed
    \/ CatalogReturns
    \/ \E w \in Workers : AttemptHttpError(w)
    \/ \E w \in Workers : AttemptThrows(w)
    \/ \E w \in Workers : BackoffElapsed(w)
    \/ \E w \in Workers : AttemptSucceeds(w)
    \/ JoinAndRespond

Spec == Init /\ [][Next]_vars

\* a request in the shape the viewer sends, to a provider whose catalog is
\* longer than the pool is wide
PoolRequests ==
    { r \in Requests : r.lat # null /\ r.lng # null /\ r.zoom # null
                       /\ r.mode = <<"a", "l", "l">> }

InitPool ==
    /\ request \in PoolRequests
    /\ provider \in IF request \in PlacedRequests
                     THEN PoolProviders \cup MalformedProviders
                     ELSE {SmallProvider}
    /\ InitHandler

SpecPool == InitPool /\ [][Next]_vars

\* the providers of Providers, each with no tile or one tile whose fetch
\* never settles
HangProviders ==
    UNION { { [p EXCEPT !.hangsAt = h] : h \in 0..Len(p.items) } : p \in Providers }

InitHang ==
    /\ request \in PoolRequests
    /\ provider \in IF request \in PlacedRequests
                     THEN HangProviders \cup MalformedProviders
                     ELSE {SmallProvider}
    /\ InitHandler

SpecHang == InitHang /\ [][Next]_vars

\* providers of up to LiveTiles items with one image each, every plan of
\* failing attempts, and no tile or one tile whose fetch never settles
LiveProviders ==
    UNION { { [ items      |-> [k \in 1..n |-> WaybackItem(k, 1000 * k)],
                images     |-> [k \in 1..n |-> <<k>>],
                failsFirst |-> ff,
                hangsAt    |-> h ]
              : ff \in [1..n -> 0..attempts], h \in 0..n } : n \in 0..LiveTiles }

InitLive ==
    /\ request \in PoolRequests
    /\ provider \in IF request \in PlacedRequests
                     THEN LiveProviders \cup MalformedProviders
                     ELSE {SmallProvider}
    /\ InitHandler

\* The event loop runs every callback that is ready: a fetch attempt that
\* settles resumes its worker, a timer that is due resumes its worker, and
\* the handler resumes when the promises of all workers have resolved.
Fairness ==
    /\ \A w \in Workers : WF_vars(FailAttempt(w))
    /\ \A w \in Workers : WF_vars(BackoffElapsed(w))
    /\ \A w \in Workers : WF_vars(AttemptSucceeds(w))
    /\ WF_vars(JoinAndRespond)

SpecLive == InitLive /\ [][Next]_vars /\ Fairness

\* requests for one place and for the edges of the longitude range, with
\* the zoom given or not, and the mode absent, empty, "all" in either case,
\* or another word
EdgeRequests ==
    [ lat  : { <<"4", "8", ".", "8", "5">> },
      lng  : { <<"2", ".", "3", "5">>, <<"1", "8", "0">>, <<"-", "1", "8", "0">>,
               <<"1", "7", "9", ".", "9", "9", "9">> },
      zoom : ZoomParams,
      mode : ModeParams \cup { <<>>, <<"A", "L", "L">> } ]

\* a few providers: an empty catalog, one tile, one tile whose first fetch
\* fails, two tiles, a malformed item
EdgeProviders ==
    { [ items |-> <<>>, images |-> <<>>, failsFirst |-> <<>>, hangsAt |-> 0 ],
      SmallProvider,
      [ SmallProvider EXCEPT !.failsFirst = <<1>> ],
      [ items |-> << WaybackItem(1, 2000), WaybackItem(2, 1000) >>,
        images |-> << <<0>>, <<0, 0>> >>, failsFirst |-> <<0, 0>>,
        hangsAt |-> 0 ] }
        \cup MalformedProviders

InitEdge ==
    /\ request \in EdgeRequests \cup { r \in Requests : r.lat = <<"0">> }
    /\ provider \in IF request \in EdgeRequests THEN EdgeProviders
                     ELSE {SmallProvider}
    /\ InitHandler

SpecEdge == InitEdge /\ [][Next]_vars

Range(s) == { s[i] : i \in DOMAIN s }

(* ---------------- GlobeProvider ---------------- *)

\* the new marker is appended and the old one of the same id stays
addMarker_KeepsOld(ms, marker) == Append(ms, marker)

\* addMarker: a marker with the same id is removed, the new one is appended
addMarker(ms, marker) ==
    Append(SelectSeq(ms, LAMBDA m : m.id # marker.id), marker)

\* clearMarkers: setMarkers([])
clearMarkers == <<>>

\* the markers that the callers of the provider add
MarkerIds == { <<"marker", ToString(i)>> : i \in 1..MaxMarkerIds }

MarkerLabels == { <<"Paris">>, <<"Rome">> }

\* a caller adds a marker
AddMarkerCall(marker) ==
    /\ markers' = addMarker(markers, marker)
    /\ UNCHANGED << messages, effectDue, isGlobeOpen, pointOfView,
                    processedToolCalls, lastAssistantMessageId,
                    satelliteCloseIssuedForMessage, geocoding, markerTimers,
                    mounted, startCloses, executions, shown >>
    /\ UNCHANGED << routeVars, fallbackVars, viewerVars >>

\* a caller clears the markers
ClearMarkersCall ==
    /\ markers' = clearMarkers
    /\ UNCHANGED << messages, effectDue, isGlobeOpen, pointOfView,
                    processedToolCalls, lastAssistantMessageId,
                    satelliteCloseIssuedForMessage, geocoding, markerTimers,
                    mounted, startCloses, executions, shown >>
    /\ UNCHANGED << routeVars, fallbackVars, viewerVars >>

\* setIsGlobeOpen(open)
SetIsGlobeOpenCall(open) ==
    /\ isGlobeOpen' = open
    /\ UNCHANGED << messages, effectDue, markers, pointOfView,
                    processedToolCalls, lastAssistantMessageId,
                    satelliteCloseIssuedForMessage, geocoding, markerTimers,
                    mounted, startCloses, executions, shown >>
    /\ UNCHANGED << routeVars, fallbackVars, viewerVars >>

\* flyToLocation: setPointOfView
FlyToLocationCall(id) ==
    /\ pointOfView' = id
    /\ UNCHANGED << messages, effectDue, isGlobeOpen, markers,
                    processedToolCalls, lastAssistantMessageId,
                    satelliteCloseIssuedForMessage, geocoding, markerTimers,
                    mounted, startCloses, executions, shown >>
    /\ UNCHANGED << routeVars, fallbackVars, viewerVars >>

NextProvider ==
    \/ \E id \in MarkerIds, label \in MarkerLabels :
          AddMarkerCall([id |-> id, label |-> label])
    \/ ClearMarkersCall
    \/ \E open \in BOOLEAN : SetIsGlobeOpenCall(open)
    \/ \E id \in MarkerIds : FlyToLocationCall(id)

(* ---------------- Chat: the messages of useChat ---------------- *)

SatelliteTool == <<"tool-", "get_satellite_timeline">>

ShowLocationTool == <<"tool-", "show_location_on_globe">>

CloseGlobeTool == <<"tool-", "close_globe">>

ToolTypes == { SatelliteTool, ShowLocationTool, CloseGlobeTool }

\* the states of a tool part, in the order in which a part goes through them
PartStates == << "input-streaming", "input-available", "output-available" >>

StateRank(st) == CHOOSE i \in DOMAIN PartStates : PartStates[i] = st

MessageId(i) == <<"msg", ToString(i)>>

ToolCallId(i, j) == <<"call", ToString(i), ToString(j)>>

TextPart == [type |-> <<"text">>, state |-> undefined, toolCallId |-> undefined,
             input |-> undefined]

\* part.type?.startsWith("tool-")
IsToolPart(part) == Head(part.type) = "tool-"

\* part.type.replace("tool-", ""): the first "tool-" gives way to the empty
\* string, which adds nothing to the name
ToolNameOf(part) == SelectSeq(ReplaceFirst(part.type, "tool-", ""), LAMBDA t : t # "")

\* the tool parts of the messages ms
RECURSIVE ToolPartCount(_)
ToolPartCount(ms) ==
    IF ms = <<>> THEN 0
    ELSE Len(SelectSeq(Head(ms).parts, IsToolPart)) + ToolPartCount(Tail(ms))

latestMessage == messages[Len(messages)]

\* handleSubmit: the user's text is sent as a new message
UserSends ==
    /\ ~effectDue
    /\ Len(messages) < MaxMessages
    /\ messages' = Append(messages, [id |-> MessageId(Len(messages) + 1),
                                     role |-> "user", parts |-> <<TextPart>>])
    /\ effectDue' = TRUE
    /\ UNCHANGED << isGlobeOpen, markers, pointOfView, processedToolCalls,
                    lastAssistantMessageId, satelliteCloseIssuedForMessage,
                    geocoding, markerTimers, mounted, startCloses,
                    executions, shown >>
    /\ UNCHANGED << routeVars, fallbackVars, viewerVars >>

\* useChat: the assistant's answer begins
AssistantReplies ==
    /\ ~effectDue
    /\ Len(messages) < MaxMessages
    /\ messages' = Append(messages, [id |-> MessageId(Len(messages) + 1),
                                     role |-> "assistant", parts |-> <<>>])
    /\ effectDue' = TRUE
    /\ UNCHANGED << isGlobeOpen, markers, pointOfView, processedToolCalls,
                    lastAssistantMessageId, satelliteCloseIssuedForMessage,
                    geocoding, markerTimers, mounted, startCloses,
                    executions, shown >>
    /\ UNCHANGED << routeVars, fallbackVars, viewerVars >>

\* useChat: the stream adds a tool part to the assistant's latest message;
\* the part may have gone through several states since the last render,
\* and may lack its toolCallId
PartArrives(type, st, hasId) ==
    /\ ~effectDue
    /\ messages # <<>>
    /\ latestMessage.role = "assistant"
    /\ ToolPartCount(messages) < MaxParts
    /\ LET i == Len(messages)
           j == Len(latestMessage.parts) + 1
           part == [ type |-> type, state |-> st,
                     toolCallId |-> IF hasId THEN ToolCallId(i, j) ELSE undefined,
                     input |-> [location |-> <<"Paris">>] ]
       IN  messages' = [messages EXCEPT ![i].parts = Append(@, part)]
    /\ effectDue' = TRUE
    /\ UNCHANGED << isGlobeOpen, markers, pointOfView, processedToolCalls,
                    lastAssistantMessageId, satelliteCloseIssuedForMessage,
                    geocoding, markerTimers, mounted, startCloses,
                    executions, shown >>
    /\ UNCHANGED << routeVars, fallbackVars, viewerVars >>

\* useChat: the stream moves a tool part of the latest message on
PartAdvances(j, st) ==
    /\ ~effectDue
    /\ messages # <<>>
    /\ latestMessage.role = "assistant"
    /\ j \in DOMAIN latestMessage.parts
    /\ StateRank(latestMessage.parts[j].state) < StateRank(st)
    /\ messages' = [messages EXCEPT ![Len(messages)].parts[j].state = st]
    /\ effectDue' = TRUE
    /\ UNCHANGED << isGlobeOpen, markers, pointOfView, processedToolCalls,
                    lastAssistantMessageId, satelliteCloseIssuedForMessage,
                    geocoding, markerTimers, mounted, startCloses,
                    executions, shown >>
    /\ UNCHANGED << routeVars, fallbackVars, viewerVars >>

(* ---------------- Chat: the effect on messages ---------------- *)

\* what one run of the effect reads and writes, as one value
Globe ==
    [ open |-> isGlobeOpen, markers |-> markers,
      processed |-> processedToolCalls,
      issued |-> satelliteCloseIssuedForMessage,
      geocoding |-> geocoding, startCloses |-> startCloses,
      executions |-> executions ]

\* setIsGlobeOpen(false); clearMarkers()
Closed(g) == [g EXCEPT !.open = FALSE, !.markers = clearMarkers]

\* the close on start is issued for every part that has started
StartedUnseen_EveryPart(g, part) ==
    /\ ToolNameOf(part) = <<"get_satellite_timeline">>
    /\ part.state \in {"input-available", "input-streaming"}

\* the test of the close on start: the satellite tool has started and the
\* close has not been issued for this message
StartedUnseen(g, part) ==
    /\ ToolNameOf(part) = <<"get_satellite_timeline">>
    /\ part.state \in {"input-available", "input-streaming"}
    /\ ~g.issued

\* the actions of a completed tool part, up to the first await
CompletedTool(g, part) ==
    LET toolName == ToolNameOf(part)
    IN  IF toolName = <<"show_location_on_globe">>
        THEN IF part.input.location = undefined THEN g
             ELSE [g EXCEPT !.geocoding = @ \cup {part.toolCallId}]
        ELSE IF toolName = <<"close_globe">> THEN Closed(g)
        ELSE IF toolName = <<"get_satellite_timeline">> THEN Closed(g)
        ELSE g

\* the completed tool is run whether or not its call was processed before
AlreadyProcessed_Never(g, part) == part.toolCallId = undefined

\* lines 671: a part without toolCallId, or one already processed, is skipped
AlreadyProcessed(g, part) ==
    part.toolCallId = undefined \/ part.toolCallId \in g.processed

\* the callback of parts.forEach for one part, up to its first await
ProcessPart(g, part, msgId) ==
    IF ~IsToolPart(part) THEN g
    ELSE IF StartedUnseen(g, part)
    THEN [Closed(g) EXCEPT !.issued = TRUE, !.startCloses = Append(@, msgId)]
    ELSE IF part.state # "output-available" THEN g
    ELSE IF AlreadyProcessed(g, part) THEN g
    ELSE CompletedTool([g EXCEPT !.processed = @ \cup {part.toolCallId},
                                 !.executions = Append(@, [message |-> msgId,
                                                           toolCallId |-> part.toolCallId])],
                       part)

\* parts.forEach(...): the parts in their order
RECURSIVE ForEachPart(_, _, _)
ForEachPart(g, parts, msgId) ==
    IF parts = <<>> THEN g
    ELSE ForEachPart(ProcessPart(g, Head(parts), msgId), Tail(parts), msgId)

\* the body of the effect on messages, which runs after a render in which
\* messages changed
EffectOnGlobe ==
    /\ effectDue
    /\ effectDue' = FALSE
    /\ IF messages = <<>> \/ latestMessage.role # "assistant"
       THEN UNCHANGED << isGlobeOpen, markers, processedToolCalls,
                         lastAssistantMessageId,
                         satelliteCloseIssuedForMessage, geocoding,
                         startCloses, executions >>
       ELSE LET fresh == lastAssistantMessageId # latestMessage.id
                g0 == IF fresh
                      THEN [Globe EXCEPT !.processed = {}, !.issued = FALSE]
                      ELSE Globe
                g  == ForEachPart(g0, latestMessage.parts, latestMessage.id)
            IN  /\ lastAssistantMessageId' = latestMessage.id
                /\ isGlobeOpen' = g.open
                /\ markers' = g.markers
                /\ processedToolCalls' = g.processed
                /\ satelliteCloseIssuedForMessage' = g.issued
                /\ geocoding' = g.geocoding
                /\ startCloses' = g.startCloses
                /\ executions' = g.executions
    /\ UNCHANGED << messages, pointOfView, markerTimers, mounted, shown >>

\* the effect of the Chat of lines 595-765, which has no fallback
RunEffect == EffectOnGlobe /\ UNCHANGED << routeVars, fallbackVars, viewerVars >>

\* geocodeLocation resolves: the markers are cleared, the globe is opened
\* and the marker is added 400 ms later
GeocodeResolves(id) ==
    /\ id \in geocoding
    /\ geocoding' = geocoding \ {id}
    /\ markers' = clearMarkers
    /\ isGlobeOpen' = TRUE
    /\ markerTimers' = Append(markerTimers, id)
    /\ UNCHANGED << messages, effectDue, pointOfView, processedToolCalls,
                    lastAssistantMessageId, satelliteCloseIssuedForMessage,
                    mounted, startCloses,
                    executions, shown >>
    /\ UNCHANGED << routeVars, fallbackVars, viewerVars >>

\* geocodeLocation rejects: only a toast is shown
GeocodeRejects(id) ==
    /\ id \in geocoding
    /\ geocoding' = geocoding \ {id}
    /\ UNCHANGED << messages, effectDue, isGlobeOpen, markers, pointOfView,
                    processedToolCalls, lastAssistantMessageId,
                    satelliteCloseIssuedForMessage, markerTimers, mounted,
                    startCloses,
                    executions, shown >>
    /\ UNCHANGED << routeVars, fallbackVars, viewerVars >>

\* the 400 ms timer that was set first fires: the marker is added and the
\* globe flies to it
MarkerTimerFires(id) ==
    /\ markerTimers # <<>>
    /\ id = Head(markerTimers)
    /\ markerTimers' = Tail(markerTimers)
    /\ markers' = addMarker(markers, [id |-> id, label |-> <<"Paris">>])
    /\ pointOfView' = id
    /\ shown' = shown \cup {id}
    /\ UNCHANGED << messages, effectDue, isGlobeOpen, processedToolCalls,
                    lastAssistantMessageId, satelliteCloseIssuedForMessage,
                    geocoding, mounted, startCloses, executions >>
    /\ UNCHANGED << routeVars, fallbackVars, viewerVars >>

\* the satellite tool parts that have their output
ViewerParts ==
    { ij \in (DOMAIN messages) \X (1..MaxParts) :
        /\ ij[1] \in DOMAIN messages
        /\ ij[2] \in DOMAIN messages[ij[1]].parts
        /\ messages[ij[1]].parts[ij[2]].type = SatelliteTool
        /\ messages[ij[1]].parts[ij[2]].state = "output-available" }

\* SatelliteImageViewer mounts for a part that has its output: its first
\* effect closes the globe and clears the markers
ViewerMounts(ij) ==
    /\ ij \in ViewerParts \ mounted
    /\ mounted' = mounted \cup {ij}
    /\ isGlobeOpen' = FALSE
    /\ markers' = clearMarkers
    /\ UNCHANGED << messages, effectDue, pointOfView, processedToolCalls,
                    lastAssistantMessageId, satelliteCloseIssuedForMessage,
                    geocoding, markerTimers, startCloses,
                    executions, shown >>
    /\ UNCHANGED << routeVars, fallbackVars, viewerVars >>

\* the tool call ids that a message of the model can carry
ToolCallIds == { ToolCallId(i, j) : i \in 1..MaxMessages, j \in 1..MaxParts }

NextChat ==
    \/ UserSends
    \/ AssistantReplies
    \/ \E type \in ToolTypes, st \in Range(PartStates), hasId \in BOOLEAN :
          PartArrives(type, st, hasId)
    \/ \E j \in 1..MaxParts, st \in Range(PartStates) : PartAdvances(j, st)
    \/ RunEffect
    \/ \E id \in ToolCallIds : GeocodeResolves(id)
    \/ \E id \in ToolCallIds : GeocodeRejects(id)
    \/ \E id \in ToolCallIds : MarkerTimerFires(id)
    \/ \E ij \in (1..MaxMessages) \X (1..MaxParts) : ViewerMounts(ij)

\* the chat page next to a route that serves no request
InitChat ==
    /\ request = [lat |-> null, lng |-> null, zoom |-> null, mode |-> null]
    /\ provider = SmallProvider
    /\ InitHandler

SpecChat == InitChat /\ [][NextChat]_vars

\* the provider under any sequence of calls
SpecProvider == InitChat /\ [][NextProvider]_vars

(* ---------------- Chat with the satellite fallback ---------------- *)
(* The Chat of lines 188-581 has the same effect on messages and adds  *)
(* the fallback: a text with satellite intent starts a 2.5 s timer     *)
(* that appends a synthetic assistant message with the satellite tool  *)
(* output unless the assistant's own satellite tool is seen first.     *)

\* what handleSubmit finds in the text: no satellite intent, an intent with
\* coordinates (parseLatLngFromText), an intent with a location guess only
Intents == {"coords", "guess"}

SyntheticId(r) == <<"assistant-synth-", ToString(r)>>

\* lines 352-370: the synthetic message of the request r
syntheticMessage(r) ==
    [ id |-> SyntheticId(r), role |-> "assistant",
      parts |-> << [ type |-> SatelliteTool, state |-> "output-available",
                     toolCallId |-> <<"synth-sat-", ToString(r)>>,
                     input |-> undefined ] >> ]

IsSynthetic(msg) == Head(msg.id) = "assistant-synth-"

\* handleSubmit for a text with satellite intent: the intent is stored, the
\* globe is closed, the timer is started and the message is sent; the
\* callback of the timer sees the markers and isGlobeOpen of this render
SubmitSatellite(kind) ==
    /\ ~effectDue
    /\ Len(messages) < MaxMessages
    /\ pendingSatelliteIntent' = kind
    /\ isGlobeOpen' = FALSE
    /\ markers' = clearMarkers
    /\ satelliteFallbackTimer' =
          [ pending |-> TRUE, request |-> Len(messages) + 1,
            markers |-> markers, open |-> isGlobeOpen ]
    /\ messages' = Append(messages, [id |-> MessageId(Len(messages) + 1),
                                     role |-> "user", parts |-> <<TextPart>>])
    /\ effectDue' = TRUE
    /\ UNCHANGED << pointOfView, processedToolCalls, lastAssistantMessageId,
                    satelliteCloseIssuedForMessage, geocoding, markerTimers,
                    mounted, startCloses, executions, shown >>
    /\ UNCHANGED << syntheticSatelliteShown, fallbackGeocoding, serverLed >>
    /\ UNCHANGED << routeVars, viewerVars >>

\* lines 347-374: the globe is closed if the callback saw it open, the
\* markers are cleared, the synthetic message is appended and the fallback
\* is cancelled
AppendSynthetic(t) ==
    /\ isGlobeOpen' = IF t.open THEN FALSE ELSE isGlobeOpen
    /\ markers' = clearMarkers
    /\ messages' = Append(messages, syntheticMessage(t.request))
    /\ effectDue' = TRUE
    /\ syntheticSatelliteShown' = TRUE
    /\ satelliteFallbackTimer' = NoTimer
    /\ pendingSatelliteIntent' = "null"

\* the 2.5 s timer fires: triggerSatelliteFallback up to its await, or to
\* its end when it needs no geocoding
FallbackTimerFires ==
    /\ ~effectDue
    /\ satelliteFallbackTimer.pending
    /\ LET t == satelliteFallbackTimer
       IN  IF pendingSatelliteIntent = "null" \/ syntheticSatelliteShown
           THEN /\ satelliteFallbackTimer' = NoTimer
                /\ UNCHANGED << isGlobeOpen, markers, messages, effectDue,
                                syntheticSatelliteShown, pendingSatelliteIntent,
                                fallbackGeocoding >>
           ELSE IF pendingSatelliteIntent = "coords" \/ t.markers # <<>>
           THEN /\ AppendSynthetic(t)
                /\ UNCHANGED fallbackGeocoding
           ELSE /\ fallbackGeocoding' =
                      fallbackGeocoding \cup {[request |-> t.request, open |-> t.open]}
                /\ satelliteFallbackTimer' = NoTimer
                /\ UNCHANGED << isGlobeOpen, markers, messages, effectDue,
                                syntheticSatelliteShown, pendingSatelliteIntent >>
    /\ UNCHANGED << pointOfView, processedToolCalls, lastAssistantMessageId,
                    satelliteCloseIssuedForMessage, geocoding, markerTimers,
                    mounted, startCloses, executions, shown, serverLed >>
    /\ UNCHANGED << routeVars, viewerVars >>

\* the geocodeLocation call of triggerSatelliteFallback resolves: lines
\* 333-374 run, and nothing there reads pendingSatelliteIntent again
FallbackGeocodeResolves(f) ==
    /\ ~effectDue
    /\ f \in fallbackGeocoding
    /\ fallbackGeocoding' = fallbackGeocoding \ {f}
    /\ AppendSynthetic(f)
    /\ UNCHANGED << pointOfView, processedToolCalls, lastAssistantMessageId,
                    satelliteCloseIssuedForMessage, geocoding, markerTimers,
                    mounted, startCloses, executions, shown, serverLed >>
    /\ UNCHANGED << routeVars, viewerVars >>

\* it rejects: lat and lng stay unset, a toast is shown and nothing is appended
FallbackGeocodeRejects(f) ==
    /\ f \in fallbackGeocoding
    /\ fallbackGeocoding' = fallbackGeocoding \ {f}
    /\ UNCHANGED << chatVars, routeVars, viewerVars, pendingSatelliteIntent,
                    satelliteFallbackTimer, syntheticSatelliteShown, serverLed >>

\* let sawSatellite: a part of the latest assistant message is of the
\* satellite tool
sawSatellite ==
    /\ messages # <<>>
    /\ latestMessage.role = "assistant"
    /\ \E j \in DOMAIN latestMessage.parts :
          ToolNameOf(latestMessage.parts[j]) = <<"get_satellite_timeline">>

\* the request that the latest message answers: the last user message
LastRequest ==
    IF \E i \in DOMAIN messages : messages[i].role = "user"
    THEN CHOOSE i \in DOMAIN messages :
            /\ messages[i].role = "user"
            /\ \A k \in DOMAIN messages : messages[k].role = "user" => k <= i
    ELSE 0

\* the effect of lines 378-488: the effect on the globe, and the fallback
\* is cancelled when the latest assistant message holds the satellite tool
RunEffectFallback ==
    /\ EffectOnGlobe
    /\ syntheticSatelliteShown' =
          IF messages # <<>> /\ latestMessage.role = "assistant"
             /\ lastAssistantMessageId # latestMessage.id
          THEN FALSE ELSE syntheticSatelliteShown
    /\ IF sawSatellite
       THEN /\ satelliteFallbackTimer' = NoTimer
            /\ pendingSatelliteIntent' = "null"
       ELSE UNCHANGED << satelliteFallbackTimer, pendingSatelliteIntent >>
    /\ serverLed' = IF sawSatellite /\ ~IsSynthetic(latestMessage)
                    THEN serverLed \cup {LastRequest} ELSE serverLed
    /\ UNCHANGED << fallbackGeocoding, routeVars, viewerVars >>

FallbackCalls ==
    { [request |-> r, open |-> o] : r \in 1..MaxMessages, o \in BOOLEAN }

NextFallback ==
    \/ UserSends
    \/ \E kind \in Intents : SubmitSatellite(kind)
    \/ AssistantReplies
    \/ \E type \in ToolTypes, st \in Range(PartStates), hasId \in BOOLEAN :
          PartArrives(type, st, hasId)
    \/ \E j \in 1..MaxParts, st \in Range(PartStates) : PartAdvances(j, st)
    \/ RunEffectFallback
    \/ \E id \in ToolCallIds : GeocodeResolves(id)
    \/ \E id \in ToolCallIds : GeocodeRejects(id)
    \/ \E id \in ToolCallIds : MarkerTimerFires(id)
    \/ FallbackTimerFires
    \/ \E f \in FallbackCalls : FallbackGeocodeResolves(f)
    \/ \E f \in FallbackCalls : FallbackGeocodeRejects(f)

SpecFallback == InitChat /\ [][NextFallback]_vars

(* ---------------- SatelliteImageViewer ---------------- *)
(* components/satellite-image-viewer.tsx. One action is one task of    *)
(* the page: the code up to the next await, the render of the state it *)
(* has set and the effects of that render. Indices count from 0 as in  *)
(* the code.                                                            *)

\* item k of the timeline that /api/wayback serves for the place c
Item(c, k) == [place |-> c, releaseDate |-> k]

\* data.timeline for the place c
Served(c) == [k \in 1..archive[c] |-> Item(c, k)]

\* timeline[i]
At(tl, i) == tl[i + 1]

\* lines 149-155: what is stored for the item, as the detector answers for it
Detect(item) == [date |-> item, boxes |-> item.releaseDate]

\* setDetections((prev) => ({...prev, [i]: d}))
Store(det, i, d) ==
    [k \in DOMAIN det \cup {i} |-> IF k = i THEN d ELSE det[k]]

RECURSIVE SortedKeys(_)
\* Object.keys(detections).map(Number).sort((a, b) => a - b)
SortedKeys(keys) ==
    IF keys = {} THEN <<>>
    ELSE LET low == CHOOSE k \in keys : \A other \in keys : k <= other
         IN  <<low>> \o SortedKeys(keys \ {low})

\* lines 179-182: const points
Points(det) ==
    LET keys == SortedKeys(DOMAIN det)
    IN  [n \in DOMAIN keys |->
            [date |-> det[keys[n]].date, count |-> det[keys[n]].boxes]]

\* lines 175-185, the effect that sends the analysis, after a render:
\* it runs when one of its dependencies has changed, or at every render
\* when the prop onAnalysisComplete is a new function each time; sent is
\* analysisSentRef.current as the task has left it
AnalysisEffect(depsChanged, sent) ==
    LET sends == /\ depsChanged \/ ~callbackStable
                 /\ autoplayDone'
                 /\ ~sent
                 /\ Cardinality(DOMAIN detections') = Len(timeline')
    IN  /\ analysisSentRef' = (sent \/ sends)
        /\ analysisCalls' =
              IF sends
              THEN Append(analysisCalls,
                          [load |-> loads', points |-> Points(detections')])
              ELSE analysisCalls

\* return () => { cancelled = true; }: the cleanup of the autoplay effect
Cancel(rs) == { [r EXCEPT !.cancelled = TRUE] : r \in rs }

\* the props latitude and longitude change: the effect of lines 59-86 calls
\* fetchTimeline, which runs up to its fetch
PropsChange ==
    /\ place < MaxPlaces
    /\ place' = place + 1
    /\ timelineFetches' = timelineFetches \cup {place'}
    /\ loading' = TRUE
    /\ UNCHANGED << archive, callbackStable, timeline, currentIndex, error,
                    detections, autoplayDone, runs, loads, requestLog,
                    settleLog, lastControl >>
    /\ UNCHANGED << routeVars, chatVars, fallbackVars >>
    /\ AnalysisEffect(FALSE, analysisSentRef)

\* the response of /api/wayback is ok: lines 72-76 and 81 set the timeline,
\* and the autoplay effect of lines 114-172 runs for it: the run before is
\* cancelled and, unless the timeline is empty or autoplayDone is set,
\* runDetectionsSequentially starts and requests the detection of item 0
TimelineLoaded(c) ==
    /\ c \in timelineFetches
    /\ timelineFetches' = timelineFetches \ {c}
    /\ timeline' = Served(c)
    /\ loading' = FALSE
    /\ loads' = loads + 1
    /\ IF Len(timeline') > 0 /\ ~autoplayDone
       THEN /\ detections' = NoDetections
            /\ currentIndex' = 0
            /\ runs' = Cancel(runs) \cup
                         { [ id |-> loads', timeline |-> timeline', i |-> 0,
                             cancelled |-> FALSE, at |-> "detect" ] }
            /\ requestLog' = Append(requestLog, <<0>>)
       ELSE /\ currentIndex' = 0
            /\ runs' = Cancel(runs)
            /\ requestLog' = Append(requestLog, <<>>)
            /\ UNCHANGED detections
    /\ settleLog' = Append(settleLog, <<>>)
    /\ UNCHANGED << place, archive, callbackStable, error, autoplayDone,
                    lastControl >>
    /\ UNCHANGED << routeVars, chatVars, fallbackVars >>
    /\ AnalysisEffect(Len(timeline') # Len(timeline) \/ detections' # detections
                         \/ (Len(timeline') > 0 /\ ~autoplayDone),
                      FALSE)

\* the response is not ok, or the fetch throws: lines 77-81
TimelineFails(c) ==
    /\ c \in timelineFetches
    /\ timelineFetches' = timelineFetches \ {c}
    /\ error' = TRUE
    /\ loading' = FALSE
    /\ UNCHANGED << place, archive, callbackStable, timeline, currentIndex,
                    detections, autoplayDone, runs, loads, requestLog,
                    settleLog, lastControl >>
    /\ UNCHANGED << routeVars, chatVars, fallbackVars >>
    /\ AnalysisEffect(FALSE, analysisSentRef)

\* the detection request of a run settles: lines 135-164. With a good
\* answer the detection is stored under the index of the run; then the
\* 150 ms delay starts
DetectionSettles(r, ok) ==
    /\ r \in runs
    /\ r.at = "detect"
    /\ runs' = (runs \ {r}) \cup {[r EXCEPT !.at = "delay"]}
    /\ detections' = IF ok THEN Store(detections, r.i, Detect(At(r.timeline, r.i)))
                     ELSE detections
    /\ UNCHANGED << place, archive, callbackStable, timelineFetches, timeline,
                    currentIndex, loading, error, autoplayDone, loads,
                    requestLog, lastControl >>
    /\ settleLog' = [settleLog EXCEPT ![r.id] = Append(@, r.i)]
    /\ UNCHANGED << routeVars, chatVars, fallbackVars >>
    /\ AnalysisEffect(ok, analysisSentRef)

\* the autoplay goes two items on
NextIndex_SkipsOne(r) == r.i + 2

\* i++ of the loop of line 121
NextIndex(r) == r.i + 1

\* the 150 ms delay of a run is over: the loop of lines 121-165 goes on to
\* the next index, or ends (line 166)
DelayElapses(r) ==
    /\ r \in runs
    /\ r.at = "delay"
    /\ LET i == NextIndex(r)
       IN  IF i < Len(r.timeline) /\ ~r.cancelled
           THEN /\ currentIndex' = i
                /\ runs' = (runs \ {r}) \cup {[r EXCEPT !.i = i, !.at = "detect"]}
                /\ requestLog' = [requestLog EXCEPT ![r.id] = Append(@, i)]
                /\ UNCHANGED autoplayDone
           ELSE /\ runs' = runs \ {r}
                /\ autoplayDone' = (autoplayDone \/ ~r.cancelled)
                /\ UNCHANGED << currentIndex, requestLog >>
    /\ UNCHANGED << place, archive, callbackStable, timelineFetches, timeline,
                    loading, error, detections, loads, settleLog,
                    lastControl >>
    /\ UNCHANGED << routeVars, chatVars, fallbackVars >>
    /\ AnalysisEffect(autoplayDone' # autoplayDone, analysisSentRef)

\* lines 188-213 and disabled={!autoplayDone}: the buttons and the slider
\* are rendered and enabled
ControlsEnabled ==
    /\ ~loading /\ ~error /\ Len(timeline) > 0 /\ currentIndex < Len(timeline)
    /\ autoplayDone

\* the index after the last one is kept
goToNext_NoWrap(prev, len) == prev + 1

\* goToNext: (prev) => (prev < timeline.length - 1 ? prev + 1 : 0)
goToNext(prev, len) == IF prev < len - 1 THEN prev + 1 ELSE 0

\* goToPrevious: (prev) => (prev > 0 ? prev - 1 : timeline.length - 1)
goToPrevious(prev, len) == IF prev > 0 THEN prev - 1 ELSE len - 1

\* a click on the next button
GoToNext ==
    /\ ControlsEnabled
    /\ currentIndex' = goToNext(currentIndex, Len(timeline))
    /\ UNCHANGED << place, archive, callbackStable, timelineFetches, timeline,
                    loading, error, detections, autoplayDone, runs, loads,
                    requestLog, settleLog >>
    /\ lastControl' = "next"
    /\ UNCHANGED << routeVars, chatVars, fallbackVars >>
    /\ AnalysisEffect(FALSE, analysisSentRef)

\* a click on the previous button
GoToPrevious ==
    /\ ControlsEnabled
    /\ currentIndex' = goToPrevious(currentIndex, Len(timeline))
    /\ UNCHANGED << place, archive, callbackStable, timelineFetches, timeline,
                    loading, error, detections, autoplayDone, runs, loads,
                    requestLog, settleLog >>
    /\ lastControl' = "previous"
    /\ UNCHANGED << routeVars, chatVars, fallbackVars >>
    /\ AnalysisEffect(FALSE, analysisSentRef)

\* the slider is moved to v, between its min 0 and its max
SliderChange(v) ==
    /\ ControlsEnabled
    /\ v \in 0..(Len(timeline) - 1)
    /\ currentIndex' = v
    /\ UNCHANGED << place, archive, callbackStable, timelineFetches, timeline,
                    loading, error, detections, autoplayDone, runs, loads,
                    requestLog, settleLog >>
    /\ lastControl' = "slider"
    /\ UNCHANGED << routeVars, chatVars, fallbackVars >>
    /\ AnalysisEffect(FALSE, analysisSentRef)

NextViewer ==
    \/ PropsChange
    \/ \E c \in 1..MaxPlaces : TimelineLoaded(c)
    \/ \E c \in 1..MaxPlaces : TimelineFails(c)
    \/ \E r \in runs, ok \in BOOLEAN : DetectionSettles(r, ok)
    \/ \E r \in runs : DelayElapses(r)
    \/ GoToNext
    \/ GoToPrevious
    \/ \E v \in 0..MaxItems : SliderChange(v)

\* the viewer has mounted for its first place: fetchTimeline awaits the
\* response; the page around it does nothing
InitViewer ==
    /\ request = [lat |-> null, lng |-> null, zoom |-> null, mode |-> null]
    /\ provider = SmallProvider
    /\ ChatMounted
    /\ HandlerStart
    /\ place = 1
    /\ archive \in [1..MaxPlaces -> 0..MaxItems]
    /\ callbackStable \in BOOLEAN
    /\ timelineFetches = {1}
    /\ timeline = <<>>
    /\ currentIndex = 0
    /\ loading = TRUE
    /\ error = FALSE
    /\ detections = NoDetections
    /\ autoplayDone = FALSE
    /\ analysisSentRef = FALSE
    /\ runs = {}
    /\ loads = 0
    /\ requestLog = <<>>
    /\ settleLog = <<>>
    /\ lastControl = "none"
    /\ analysisCalls = <<>>

SpecViewer == InitViewer /\ [][NextViewer]_vars

(* ---------------- properties of the route ---------------- *)

Tiles == 1..Len(timelineRaw)

\* the handler has returned after the workers of the pool have
Joined == pc = "done" /\ \A w \in Workers : wstate[w] = "done"

\* the workers of the pool have been started
PoolStarted == \E w \in Workers : wstate[w] # "idle"

\* the handler has ended in its catch: after the catalog query was issued
\* and before any worker was started
Threw == pc = "done" /\ catalogCalls # <<>> /\ ~PoolStarted

\* the tile at position k has been fetched: an attempt that the tile server
\* lets succeed has been issued and has settled
Fetched(k) ==
    /\ fetchCount[k] > provider.failsFirst[k]
    /\ \A w \in Workers : wstate[w] = "fetch" => current[w] # k

\* the tile server lets three attempts in a row fail for the tile at k
FailsPermanently(k) == provider.failsFirst[k] >= 3

ErrorsFor(errs, k) == { i \in DOMAIN errs : errs[i].url = timelineRaw[k].tileUrl }

Ascending(tl) ==
    \A i \in 1..(Len(tl) - 1) : tl[i].releaseDatetime <= tl[i + 1].releaseDatetime

\* C1: every 200 response carries a timeline that is sorted ascending by
\* releaseDatetime, whatever the order of the catalog and of the fetches.
C1_TimelineSorted ==
    \A r \in DOMAIN responses :
        responses[r].status = 200 => Ascending(responses[r].body.timeline)

\* a 200 response for a catalog that listed the newer of two kept items first
C1_Witness ==
    /\ Joined
    /\ Len(responses) = 1 /\ responses[1].status = 200
    /\ Len(timelineRaw) = 2
    /\ timelineRaw[1].releaseDatetime > timelineRaw[2].releaseDatetime
    /\ responses[1].body.timeline = << timelineRaw[2], timelineRaw[1] >>

\* C2: with the pool of 8 workers, never more than 8 tile fetches are in
\* flight, whatever the number of candidates and the pattern of failures.
C2_PeakConcurrency == inFlight <= 8

\* the pool is full with a retry among the fetches in flight, and a
\* candidate is still waiting to be claimed
C2_Witness ==
    /\ inFlight = 8
    /\ index < Len(timelineRaw)
    /\ \E w \in Workers : wstate[w] = "fetch" /\ attempt[w] = 3

\* C3: when the fetch of tile K fails three times in a row, the request
\* still returns 200, K is not in the timeline, errors has exactly one entry
\* with K's tileUrl, and every image that some tile delivered is in the
\* timeline exactly once.
C3_FailureIsolated ==
    \A K \in Tiles :
        (Joined /\ FailsPermanently(K)) =>
            /\ Len(responses) = 1
            /\ responses[1].status = 200
            /\ LET body == responses[1].body
               IN  /\ timelineRaw[K] \notin Range(body.timeline)
                   /\ Cardinality(ErrorsFor(body.errors, K)) = 1
                   /\ \A j \in Tiles :
                        Fetched(j) =>
                          Cardinality({ i \in DOMAIN body.timeline :
                              \E k \in Tiles :
                                 /\ body.timeline[i] = timelineRaw[k]
                                 /\ Fetched(k)
                                 /\ provider.images[k] = provider.images[j] }) = 1

\* one of two tiles has failed for good and the other is in the timeline
C3_Witness ==
    /\ Joined
    /\ Len(timelineRaw) = 2
    /\ FailsPermanently(1) /\ fetchCount[1] = 3
    /\ provider.failsFirst[2] = 0
    /\ responses[1].body.timeline = << timelineRaw[2] >>
    /\ Len(responses[1].body.errors) = 1

\* C4: in every 200 response count is the length of timeline, which is the
\* number of distinct byte contents among the fetched tiles.
C4_CountDistinctImages ==
    \A r \in DOMAIN responses :
        responses[r].status = 200 =>
            /\ responses[r].body.count = Len(responses[r].body.timeline)
            /\ Len(responses[r].body.timeline)
                 = Cardinality({ provider.images[k] : k \in { j \in Tiles : Fetched(j) } })

\* the end-to-end scenario: of five fetched tiles the second and the
\* fourth have the same bytes, and count is 4
C4_Witness ==
    /\ Joined
    /\ Len(timelineRaw) = 5
    /\ \A k \in Tiles : Fetched(k)
    /\ provider.images[2] = provider.images[4]
    /\ responses[1].status = 200
    /\ responses[1].body.count = 4

\* C5: a tile whose first two attempts fail and whose third succeeds has no
\* entry in errors, and is in the timeline when no other tile has its bytes.
C5_ThirdAttemptCounts ==
    \A k \in Tiles :
        (Joined /\ provider.failsFirst[k] = 2) =>
            /\ Len(responses) = 1
            /\ responses[1].status = 200
            /\ ErrorsFor(responses[1].body.errors, k) = {}
            /\ (\A j \in Tiles \ {k} : provider.images[j] # provider.images[k])
                 => timelineRaw[k] \in Range(responses[1].body.timeline)

\* a tile that took three attempts is in the timeline next to another one
C5_Witness ==
    /\ Joined
    /\ Len(timelineRaw) = 2
    /\ provider.failsFirst[2] = 2 /\ fetchCount[2] = 3
    /\ provider.images[1] # provider.images[2]
    /\ timelineRaw[2] \in Range(responses[1].body.timeline)
    /\ responses[1].body.errors = <<>>

\* the parameter is absent, empty or parses to 0
MissingParam(p) ==
    \/ p = null
    \/ p = <<>>
    \/ ParseFloat(p) = Num(0)

BadRequest400 ==
    << [status |-> 400, body |-> [error |-> "Missing latitude or longitude"]] >>

\* C6: a request whose lat or lng is absent, empty or parses to 0 is
\* answered with 400 and the error "Missing latitude or longitude",
\* whatever zoom and mode are.
C6_MissingCoordinate ==
    (pc # "start" /\ (MissingParam(request.lat) \/ MissingParam(request.lng)))
        => responses = BadRequest400

\* the scenario of the specification: lat omitted, lng=2.35
C6_Witness ==
    /\ pc = "done"
    /\ request.lat = null
    /\ request.lng = <<"2", ".", "3", "5">>
    /\ request.zoom # null /\ request.mode # null
    /\ responses = BadRequest400

\* C7: in a request that is rejected with 400, no catalog query and no tile
\* fetch is ever issued.
C7_RejectedBeforeNetwork ==
    (\E r \in DOMAIN responses : responses[r].status = 400) =>
        /\ catalogCalls = <<>>
        /\ inFlight = 0
        /\ \A k \in DOMAIN fetchCount : fetchCount[k] = 0
        /\ ~PoolStarted

\* a request with a latitude that is not a number has been rejected
C7_Witness ==
    /\ pc = "done"
    /\ request.lat = <<"x">>
    /\ request.lng = <<"2", ".", "3", "5">>
    /\ Len(responses) = 1 /\ responses[1].status = 400
    /\ catalogCalls = <<>>

\* C8 as the specification words it: an exception of the catalog client or
\* of the processing behind it gives 500 with the error "Failed to fetch
\* imagery".
C8_Original ==
    Threw => responses =
        << [status |-> 500, body |-> [error |-> "Failed to fetch imagery"]] >>

\* C8, amended: an exception of the catalog client or of the processing
\* behind it gives 500 with the error "Failed to fetch wayback imagery".
C8_UnhandledGives500 ==
    Threw => responses =
        << [status |-> 500, body |-> [error |-> "Failed to fetch wayback imagery"]] >>

\* building the candidates has thrown after the catalog query resolved
C8_Witness ==
    /\ Threw
    /\ ~WellFormed(provider.items)
    /\ tileCoords # NoCoords
    /\ Len(responses) = 1 /\ responses[1].status = 500

\* C9: when the catalog query throws, the request ends with a 500 error
\* object only: no tile fetch is started and no timeline, count or errors
\* is returned.
C9_CatalogThrowNoPartial ==
    (Threw /\ tileCoords = NoCoords) =>
        /\ Len(responses) = 1
        /\ responses[1].status = 500
        /\ DOMAIN responses[1].body = {"error"}
        /\ inFlight = 0
        /\ \A k \in DOMAIN fetchCount : fetchCount[k] = 0
        /\ timelineRaw = <<>>

\* the query of a catalog that holds two items has thrown
C9_Witness ==
    /\ Threw /\ tileCoords = NoCoords
    /\ Len(provider.items) = 2
    /\ Len(responses) = 1 /\ responses[1].status = 500

\* C10: failures of tile fetches, of any number of tiles and of either
\* kind, never give a 500: once the pool is started every response is a
\* 200, and it reports every tile that failed for good in errors.
C10_TileFailuresIsolated ==
    PoolStarted =>
        /\ \A r \in DOMAIN responses : responses[r].status = 200
        /\ pc = "done" =>
             /\ Len(responses) = 1
             /\ \A k \in Tiles :
                  FailsPermanently(k) => ErrorsFor(responses[1].body.errors, k) # {}

\* every tile of the catalog has failed for good
C10_Witness ==
    /\ Joined
    /\ Len(timelineRaw) = 2
    /\ \A k \in Tiles : FailsPermanently(k) /\ fetchCount[k] = 3
    /\ responses[1].status = 200
    /\ responses[1].body.timeline = <<>>
    /\ Len(responses[1].body.errors) = 2

\* the fields of the body of a 200 response
PayloadFields == {"location", "zoom", "tileCoords", "count", "timeline", "errors"}

\* C11: a handler that has completed has produced exactly one response, and
\* that response is either a 200 whose body has the six fields of the payload
\* and no error field, or a 400 or a 500 whose body is the error object
\* alone; a handler that has not completed has produced none.
C11_OneResponseOneShape ==
    /\ pc # "done" => responses = <<>>
    /\ pc = "done" =>
         /\ Len(responses) = 1
         /\ responses[1].status \in {200, 400, 500}
         /\ responses[1].status = 200 => DOMAIN responses[1].body = PayloadFields
         /\ responses[1].status # 200 => DOMAIN responses[1].body = {"error"}

\* a completed request whose one response is a 200 with a timeline and with
\* tile errors next to it
C11_Witness ==
    /\ pc = "done"
    /\ Len(responses) = 1
    /\ responses[1].status = 200
    /\ responses[1].body.timeline # <<>>
    /\ responses[1].body.errors # <<>>

\* the attempts of tile k that have settled as failures
FailedAttempts(k) ==
    LET settled == IF \E w \in Workers : wstate[w] = "fetch" /\ current[w] = k
                   THEN fetchCount[k] - 1 ELSE fetchCount[k]
    IN  IF settled <= provider.failsFirst[k] THEN settled ELSE provider.failsFirst[k]

\* C12: fetchWithRetry issues at most 3 fetches per tile URL, none after one
\* that succeeded, one per failure of either kind, and the tile is recorded
\* in errors only when exactly 3 attempts have failed.
C12_AtMostThreeAttempts ==
    \A k \in Tiles :
        /\ fetchCount[k] <= 3
        /\ fetchCount[k] <= provider.failsFirst[k] + 1
        /\ fetchCount[k] <= FailedAttempts(k) + 1
        /\ ErrorsFor(errors, k) # {} => fetchCount[k] = 3 /\ FailedAttempts(k) = 3

\* one tile has been given up after three failed attempts and another has
\* been fetched by its second attempt, with no third
C12_Witness ==
    /\ Joined
    /\ \E k, j \in Tiles :
         /\ ErrorsFor(errors, k) # {} /\ fetchCount[k] = 3
         /\ provider.failsFirst[j] = 1 /\ fetchCount[j] = 2 /\ Fetched(j)

\* the backoff delays that have elapsed when attempt i of a tile is issued
WaitedBefore(i) == IF i <= 1 THEN 0 ELSE IF i = 2 THEN 250 ELSE 750

\* C13: after failed attempt i of a tile the worker waits delay * i (250 ms
\* after the first failure, 500 ms after the second), the next attempt is
\* issued only by the timer of that wait, and no timer is set after the
\* third failure.
C13_LinearBackoff ==
    /\ [](\A w \in Workers :
            /\ wstate[w] = "sleep" =>
                 /\ attempt[w] \in {1, 2}
                 /\ timerMs[w] = 250 * attempt[w]
                 /\ fetchCount[current[w]] = attempt[w]
            /\ wstate[w] # "sleep" => timerMs[w] = 0)
    /\ [](\A k \in Tiles : waitedMs[k] = WaitedBefore(fetchCount[k]))
    /\ [][\A w \in Workers :
            (wstate[w] # "idle" /\ attempt'[w] = attempt[w] + 1)
                => /\ wstate[w] = "sleep" /\ timerMs[w] = 250 * attempt[w]
                   /\ waitedMs'[current[w]] = waitedMs[current[w]] + timerMs[w]]_vars

\* a tile has been given up after waiting 250 ms and then 500 ms, and no
\* timer is pending
C13_Witness ==
    /\ \E k \in Tiles : ErrorsFor(errors, k) # {} /\ waitedMs[k] = 750
    /\ \A w \in Workers : timerMs[w] = 0

\* the images that the tile server serves within three attempts
ServedImages ==
    { provider.images[k] : k \in { j \in Tiles : provider.failsFirst[j] < 3 } }

\* C14: when every worker has returned, the set of retained image hashes is
\* the set of the hashes of the images served, and the count is the number of
\* distinct images served: both are fixed by the candidates and their
\* bytes, so any two completion orders end with the same set and count.
C14_OrderIndependent ==
    (PoolStarted /\ AllReturned) =>
        /\ uniqueImageHashes = { Base64(img) : img \in ServedImages }
        /\ Len(uniqueItems) = Cardinality(ServedImages)
        /\ \A r \in DOMAIN responses :
              responses[r].status = 200 =>
                  responses[r].body.count = Cardinality(ServedImages)

\* two candidates with different images have completed in the reverse of
\* their catalog order and every worker has returned
C14_Witness ==
    /\ pc = "pool"
    /\ AllReturned
    /\ Len(timelineRaw) = 2
    /\ uniqueItems = << timelineRaw[2], timelineRaw[1] >>
    /\ Cardinality(uniqueImageHashes) = 2

\* the candidates whose fetch was the first to complete with their image
FirstCompleted == { timelineRaw[f.tile] : f \in firstDone }

\* C15: the retained candidates, in the pool and in the timeline of the
\* response, are exactly those whose fetch completed first among the
\* candidates with the same image; a duplicate that completes later is not
\* retained.
C15_FirstCompletedRetained ==
    /\ Range(uniqueItems) = FirstCompleted
    /\ Len(uniqueItems) = Cardinality(firstDone)
    /\ \A r \in DOMAIN responses :
          responses[r].status = 200 =>
              Range(responses[r].body.timeline) = FirstCompleted

\* of two candidates with the same image, the one later in the catalog and
\* with the later release date completed first and is in the timeline, the
\* other has been fetched and is not
C15_Witness ==
    /\ Joined
    /\ \E a, b \in Tiles :
         /\ a < b
         /\ provider.images[a] = provider.images[b]
         /\ timelineRaw[a].releaseDatetime < timelineRaw[b].releaseDatetime
         /\ Fetched(a)
         /\ [image |-> provider.images[b], tile |-> b] \in firstDone
         /\ timelineRaw[b] \in Range(responses[1].body.timeline)
         /\ timelineRaw[a] \notin Range(responses[1].body.timeline)

\* the position of x in the sequence s
Position(s, x) == CHOOSE i \in DOMAIN s : s[i] = x

\* C16 as stated: timeline items with equal releaseDatetime are in the order
\* of their descriptors in the catalog result.
C16_Original ==
    \A r \in DOMAIN responses :
        responses[r].status = 200 =>
            LET tl == responses[r].body.timeline
            IN  \A i, j \in DOMAIN tl :
                    (i < j /\ tl[i].releaseDatetime = tl[j].releaseDatetime)
                        => Position(timelineRaw, tl[i]) < Position(timelineRaw, tl[j])

\* C16: the chronological sort is stable over the unique items as the
\* workers appended them: two retained items with equal releaseDatetime are
\* in the timeline in the order in which their fetches completed.
C16_TiesInCompletionOrder ==
    [][(pc = "pool" /\ pc' = "done") =>
          /\ Range(uniqueItems') = Range(uniqueItems)
          /\ \A i, j \in DOMAIN uniqueItems :
                (i < j /\ uniqueItems[i].releaseDatetime = uniqueItems[j].releaseDatetime)
                    => Position(uniqueItems', uniqueItems[i])
                           < Position(uniqueItems', uniqueItems[j])]_vars

\* two retained items with equal releaseDatetime are in the timeline in the
\* reverse of their catalog order
C16_Witness ==
    /\ Joined
    /\ Len(timelineRaw) = 2
    /\ timelineRaw[1].releaseDatetime = timelineRaw[2].releaseDatetime
    /\ responses[1].body.timeline = << timelineRaw[2], timelineRaw[1] >>

\* C17: every candidate below the cursor has been taken by exactly one
\* worker and every candidate above it by none, the worker that holds a
\* candidate is the one that took it, and a worker returns only when the
\* cursor has passed the last candidate, so that a worker whose tile was
\* given up takes the next candidate.
C17_EachTileClaimedOnce ==
    PoolStarted =>
        /\ index <= Len(timelineRaw)
        /\ \A k \in Tiles : Len(claimedBy[k]) = IF k <= index THEN 1 ELSE 0
        /\ \A w \in Workers :
              /\ wstate[w] \in {"fetch", "sleep"} => claimedBy[current[w]] = <<w>>
              /\ wstate[w] = "done" => index = Len(timelineRaw)
        /\ AllReturned => \A k \in Tiles : Len(claimedBy[k]) = 1

\* a worker whose tile was given up after three attempts has taken a later
\* candidate, and every worker has returned
C17_Witness ==
    /\ Joined
    /\ \E k, j \in Tiles :
         /\ k < j
         /\ ErrorsFor(errors, k) # {}
         /\ claimedBy[j] = claimedBy[k]

\* C18: a 200 response exists only when every worker has returned, the step
\* that sorts and responds is taken only then and leaves the hash set and
\* the errors as the workers left them, and after it nothing is appended
\* to the unique items, the errors or the hash set.
C18_JoinBeforeAssembly ==
    /\ []((\E r \in DOMAIN responses : responses[r].status = 200)
            => \A w \in Workers : wstate[w] = "done")
    /\ [][(pc = "pool" /\ pc' = "done")
            => /\ \A w \in Workers : wstate[w] = "done"
               /\ UNCHANGED << wstate, errors, uniqueImageHashes >>]_vars
    /\ [][pc = "done"
            => UNCHANGED << uniqueItems, errors, uniqueImageHashes >>]_vars

\* nine candidates have gone through eight workers, each worker has
\* returned, and the response carries a timeline and an error
C18_Witness ==
    /\ Joined
    /\ Len(timelineRaw) = PoolTiles
    /\ responses[1].status = 200
    /\ Len(responses[1].body.timeline) = 2
    /\ Len(responses[1].body.errors) = 1

\* C19: when a fetch has been issued for a tile whose fetch never settles,
\* the handler has produced no response and produces none, whatever has
\* become of the other tiles.
C19_HangNeverResponds ==
    (provider.hangsAt \in Tiles /\ fetchCount[provider.hangsAt] >= 1)
        => responses = <<>> /\ pc = "pool"

\* one of two tiles never settles, the other has been fetched, every worker
\* but the one that awaits the unsettled fetch has returned, and there is no
\* response
C19_Witness ==
    /\ Len(timelineRaw) = 2
    /\ provider.hangsAt \in Tiles
    /\ \A k \in Tiles \ {provider.hangsAt} : Fetched(k)
    /\ \A w \in Workers :
          \/ wstate[w] = "done"
          \/ wstate[w] = "fetch" /\ current[w] = provider.hangsAt
    /\ responses = <<>>

\* the candidates that were fetched and left out of the timeline tl because
\* a candidate with the same image is in it
DiscardedDuplicates(tl) ==
    { k \in Tiles :
        /\ Fetched(k)
        /\ timelineRaw[k] \notin Range(tl)
        /\ \E j \in Tiles : /\ timelineRaw[j] \in Range(tl)
                             /\ provider.images[j] = provider.images[k] }

\* C20: after the join every candidate has exactly one outcome: it is in
\* the timeline once, or it was discarded as a duplicate of a candidate in
\* the timeline, or it is in errors once; the three numbers add up to the
\* number of candidates.
C20_EveryTileOneOutcome ==
    Joined =>
        LET tl   == responses[1].body.timeline
            errs == responses[1].body.errors
            dups == DiscardedDuplicates(tl)
            Retained(k) == timelineRaw[k] \in Range(tl)
            Failed(k)   == ErrorsFor(errs, k) # {}
        IN  /\ \A k \in Tiles :
                  /\ Retained(k) \/ k \in dups \/ Failed(k)
                  /\ ~(Retained(k) /\ k \in dups)
                  /\ ~(Retained(k) /\ Failed(k))
                  /\ ~(k \in dups /\ Failed(k))
                  /\ Cardinality(ErrorsFor(errs, k)) <= 1
            /\ Cardinality(Range(tl)) = Len(tl)
            /\ Len(tl) + Len(errs) + Cardinality(dups) = Len(timelineRaw)

\* of nine candidates two are in the timeline, one is in errors and six
\* were discarded as duplicates
C20_Witness ==
    /\ Joined
    /\ Len(timelineRaw) = PoolTiles
    /\ Len(responses[1].body.errors) = 1
    /\ Cardinality(DiscardedDuplicates(responses[1].body.timeline)) = PoolTiles - 3

\* the request has passed the validation of its coordinates
Accepted == pc # "start" /\ ~(Falsy(lat) \/ Falsy(lng))

AllSnapshotsQuery == [fn |-> "getWaybackItems", args |-> <<>>]

LocalChangesQuery ==
    [fn |-> "getWaybackItemsWithLocalChanges",
     args |-> <<lat.milli, lng.milli, zoom.milli \div Scale>>]

\* C21 as stated: the all-snapshots query when mode is absent or "all", the
\* local-changes query for every other mode value.
C21_Original ==
    Accepted =>
        catalogCalls = IF request.mode \in {null, <<"a", "l", "l">>}
                       THEN <<AllSnapshotsQuery>> ELSE <<LocalChangesQuery>>

\* C21: an accepted request has issued exactly one catalog query: the
\* all-snapshots query when mode is absent, empty or exactly "all", and for
\* any other mode value the local-changes query with the request's
\* latitude, longitude and zoom; a request not accepted has issued none.
C21_OneQueryByMode ==
    /\ Accepted =>
          catalogCalls = IF request.mode \in {null, <<>>, <<"a", "l", "l">>}
                         THEN <<AllSnapshotsQuery>> ELSE <<LocalChangesQuery>>
    /\ ~Accepted => catalogCalls = <<>>

\* a request with an empty mode has issued the all-snapshots query
C21_Witness ==
    /\ request.mode = <<>>
    /\ catalogCalls = <<AllSnapshotsQuery>>

\* C22: when the request has no zoom parameter, tileCoords.z is 15, every
\* tile URL carries level 15, and the 200 response carries zoom 15 and
\* tileCoords.z 15.
C22_DefaultZoom ==
    request.zoom = null =>
        /\ PoolStarted =>
              /\ tileCoords.z = 15
              /\ \A k \in Tiles : timelineRaw[k].tileUrl[4] = "15"
        /\ \A r \in DOMAIN responses :
              responses[r].status = 200 =>
                  /\ responses[r].body.zoom = 15
                  /\ responses[r].body.tileCoords.z = 15

\* a request without zoom has been answered with zoom 15 after two tiles of
\* level 15
C22_Witness ==
    /\ request.zoom = null
    /\ Joined
    /\ Len(timelineRaw) = 2
    /\ responses[1].body.zoom = 15
    /\ timelineRaw[2].tileUrl[4] = "15"

Placeholders == {"{level}", "{row}", "{col}"}

\* the URL template tpl with z, y and x in the places of its placeholders
Substituted(tpl, coords) ==
    [ i \in DOMAIN tpl |->
        CASE tpl[i] = "{level}" -> ToString(coords.z)
          [] tpl[i] = "{row}"   -> ToString(coords.y)
          [] tpl[i] = "{col}"   -> ToString(coords.x)
          [] OTHER              -> tpl[i] ]

\* C23: there is one candidate per catalog item, in the order of the
\* catalog, and its tileUrl is the item's URL template with {level}
\* replaced by z, {row} by y and {col} by x, with no placeholder left.
C23_UrlSubstitution ==
    PoolStarted =>
        /\ Len(timelineRaw) = Len(provider.items)
        /\ \A k \in Tiles :
              /\ timelineRaw[k].tileUrl = Substituted(provider.items[k].itemURL, tileCoords)
              /\ Range(timelineRaw[k].tileUrl) \cap Placeholders = {}

\* two candidates have been built for a tile whose row and column differ
C23_Witness ==
    /\ PoolStarted
    /\ Len(timelineRaw) = 2
    /\ tileCoords.x # tileCoords.y
    /\ timelineRaw[2].tileUrl[6] = ToString(tileCoords.y)
    /\ timelineRaw[2].tileUrl[8] = ToString(tileCoords.x)

\* the zoom that the request asks for
RequestedZoom == IF request.zoom = <<"3">> THEN 3 ELSE 15

\* C24: once computed the tile coordinates do not change, their z is the
\* zoom of the request, every tile URL carries them, and the 200 response
\* returns them.
C24_TileCoordsFixed ==
    /\ [][tileCoords # NoCoords => tileCoords' = tileCoords]_vars
    /\ [](PoolStarted =>
            /\ tileCoords.z = RequestedZoom
            /\ \A k \in Tiles :
                  /\ timelineRaw[k].tileUrl[4] = ToString(tileCoords.z)
                  /\ timelineRaw[k].tileUrl[6] = ToString(tileCoords.y)
                  /\ timelineRaw[k].tileUrl[8] = ToString(tileCoords.x))
    /\ [](\A r \in DOMAIN responses :
            responses[r].status = 200 =>
                /\ responses[r].body.tileCoords = tileCoords
                /\ responses[r].body.tileCoords.z = RequestedZoom
                /\ responses[r].body.zoom = RequestedZoom)

\* a request with zoom 3 has been answered with the coordinates of its two
\* tile URLs
C24_Witness ==
    /\ Joined
    /\ request.zoom = <<"3">>
    /\ Len(timelineRaw) = 2
    /\ responses[1].body.tileCoords = [x |-> 4, y |-> 2, z |-> 3]

\* floor(2^z * (lngMilli + 180000) / 360000), with 360000 = 2^6 * 5625
ExpectedColumn(lngMilli, z) ==
    IF z >= 6 THEN (Pow2(z - 6) * (lngMilli + 180000)) \div 5625
    ELSE (lngMilli + 180000) \div (Pow2(6 - z) * 5625)

\* C25: the tile coordinates have x = floor(2^zoom * (lng + 180) / 360)
\* and z = zoom; for lng in [-180, 180) x is within 0 .. 2^zoom - 1, and
\* for lng = 180 x is 2^zoom.
C25_ColumnNotClamped ==
    PoolStarted =>
        /\ tileCoords.z = RequestedZoom
        /\ tileCoords.x = ExpectedColumn(lng.milli, RequestedZoom)
        /\ (lng.milli >= -180000 /\ lng.milli < 180000)
              => (tileCoords.x >= 0 /\ tileCoords.x <= Pow2(RequestedZoom) - 1)
        /\ lng.milli = 180000 => tileCoords.x = Pow2(RequestedZoom)

\* a request for lng = 180 at zoom 15 has been answered with column 2^15
C25_Witness ==
    /\ Joined
    /\ request.lng = <<"1", "8", "0">>
    /\ responses[1].body.tileCoords.x = 32768
    /\ responses[1].body.tileCoords.z = 15

\* the image that the tile server holds for the candidate cand
ImageOf(cand) == provider.images[Position(timelineRaw, cand)]

\* C27: in every state of the fetch phase the hash set and the unique items
\* agree: they have the same size, the hash of every retained item's image
\* is in the set, every hash in the set is that of a retained item, and no
\* two retained items have the same image.
C27_HashSetMatchesItems ==
    pc = "pool" =>
        /\ Cardinality(uniqueImageHashes) = Len(uniqueItems)
        /\ \A i \in DOMAIN uniqueItems :
              Base64(ImageOf(uniqueItems[i])) \in uniqueImageHashes
        /\ \A h \in uniqueImageHashes :
              \E i \in DOMAIN uniqueItems : Base64(ImageOf(uniqueItems[i])) = h
        /\ \A i, j \in DOMAIN uniqueItems :
              i # j => ImageOf(uniqueItems[i]) # ImageOf(uniqueItems[j])

\* in the middle of the fetch phase one item is retained and a fetch is
\* still in flight
C27_Witness ==
    /\ pc = "pool"
    /\ Len(uniqueItems) = 1
    /\ Cardinality(uniqueImageHashes) = 1
    /\ \E w \in Workers : wstate[w] = "fetch"

\* C28: every timeline item is one of the candidates as it was built from
\* its catalog item, no candidate is in the timeline twice, and the url of
\* every errors entry is the tileUrl of a candidate that is not in the
\* timeline.
C28_CandidatesUnaltered ==
    \A r \in DOMAIN responses :
        responses[r].status = 200 =>
            LET tl   == responses[r].body.timeline
                errs == responses[r].body.errors
            IN  /\ \A i \in DOMAIN tl :
                      \E k \in Tiles :
                          /\ tl[i] = timelineRaw[k]
                          /\ tl[i] = Materialize(provider.items[k], tileCoords)
                /\ \A i, j \in DOMAIN tl : i # j => tl[i] # tl[j]
                /\ \A e \in DOMAIN errs :
                      \E k \in Tiles :
                          /\ errs[e].url = timelineRaw[k].tileUrl
                          /\ timelineRaw[k] \notin Range(tl)

\* a response whose timeline holds one candidate and whose errors name the
\* other
C28_Witness ==
    /\ Joined
    /\ Len(timelineRaw) = 2
    /\ Len(responses[1].body.timeline) = 1
    /\ Len(responses[1].body.errors) = 1

\* C29: when the catalog has returned no item, no fetch is issued and the
\* response is a 200 with count 0, an empty timeline and no errors.
C29_EmptyCatalog ==
    (PoolStarted /\ provider.items = <<>>) =>
        /\ timelineRaw = <<>>
        /\ inFlight = 0
        /\ fetchCount = <<>>
        /\ \A w \in Workers : wstate[w] = "done"
        /\ pc = "done" =>
              /\ Len(responses) = 1
              /\ responses[1].status = 200
              /\ responses[1].body.count = 0
              /\ responses[1].body.timeline = <<>>
              /\ responses[1].body.errors = <<>>

\* an empty catalog has been answered
C29_Witness ==
    /\ Joined
    /\ provider.items = <<>>
    /\ responses[1].status = 200
    /\ responses[1].body.count = 0

RECURSIVE SumSeq(_)
SumSeq(q) == IF q = <<>> THEN 0 ELSE Head(q) + SumSeq(Tail(q))

\* C30: the fetches issued for N candidates never number more than 3 * N,
\* and when the catalog query has returned and no fetch is left unsettled,
\* every worker returns and the handler produces its response.
C30_TerminatesWithinBudget ==
    /\ [](PoolStarted => SumSeq(fetchCount) <= 3 * Len(timelineRaw))
    /\ (pc = "pool" /\ provider.hangsAt \notin Tiles)
          ~> (pc = "done" /\ (\A w \in Workers : wstate[w] = "done")
                          /\ Len(responses) = 1)

\* two candidates whose every attempt failed have been answered after six
\* fetches
C30_Witness ==
    /\ Joined
    /\ Len(timelineRaw) = 2
    /\ SumSeq(fetchCount) = 6
    /\ Len(responses) = 1

(* ---------------- properties of the chat page ---------------- *)

\* the step is a run of the effect over an assistant message
EffectRuns == effectDue /\ ~effectDue' /\ latestMessage.role = "assistant"

\* the latest message was not the one of the last run
FreshMessage == lastAssistantMessageId # latestMessage.id

\* the latest message holds a satellite part that has started, and the globe
\* has not been closed on start for this message
SatelliteStarts ==
    /\ \E j \in DOMAIN latestMessage.parts :
          /\ latestMessage.parts[j].type = SatelliteTool
          /\ latestMessage.parts[j].state \in {"input-streaming", "input-available"}
    /\ FreshMessage \/ ~satelliteCloseIssuedForMessage

\* the satellite parts of the latest message that have their output and
\* were not handled by an earlier run
SatelliteCompletes ==
    { j \in DOMAIN latestMessage.parts :
        /\ latestMessage.parts[j].type = SatelliteTool
        /\ latestMessage.parts[j].state = "output-available"
        /\ FreshMessage \/ latestMessage.parts[j].toolCallId \notin processedToolCalls }

GlobeClosedAfter == isGlobeOpen' = FALSE /\ markers' = <<>>

NoMessageClosedTwice ==
    \A a, b \in DOMAIN startCloses : a # b => startCloses[a] # startCloses[b]

C31_OncePerToolCall ==
    /\ [](/\ \A a, b \in DOMAIN executions :
                a # b => executions[a] # executions[b]
          /\ \A a \in DOMAIN executions :
                executions[a].toolCallId # undefined)
    /\ [][~(processedToolCalls \subseteq processedToolCalls')
            => /\ EffectRuns
               /\ FreshMessage
               /\ lastAssistantMessageId' = latestMessage.id]_vars

\* the effect has run for each of two completed parts of one message, the
\* second without toolCallId: one execution
C31_Witness ==
    /\ ~effectDue
    /\ Len(messages) = 1
    /\ Len(messages[1].parts) = 2
    /\ \A j \in 1..2 : messages[1].parts[j].state = "output-available"
    /\ messages[1].parts[1].toolCallId = ToolCallId(1, 1)
    /\ messages[1].parts[2].toolCallId = undefined
    /\ executions = << [message |-> MessageId(1), toolCallId |-> ToolCallId(1, 1)] >>
    /\ processedToolCalls = { ToolCallId(1, 1) }

\* the positions of the completed show_location_on_globe calls of a message
ShowCalls(msg) ==
    { j \in DOMAIN msg.parts :
        /\ msg.parts[j].type = ShowLocationTool
        /\ msg.parts[j].state = "output-available"
        /\ msg.parts[j].toolCallId # undefined }

\* the most recent of them
LastShowCall(msg) ==
    msg.parts[CHOOSE j \in ShowCalls(msg) : \A k \in ShowCalls(msg) : k <= j].toolCallId

\* C32: once every show_location_on_globe call of the latest assistant
\* message has finished (its geocoding resolved and its delayed addMarker
\* run), the markers hold no marker but the one of the most recent call
C32_MarkersReplaced ==
    ( /\ messages # <<>>
      /\ latestMessage.role = "assistant"
      /\ ShowCalls(latestMessage) # {}
      /\ \A j \in ShowCalls(latestMessage) :
            latestMessage.parts[j].toolCallId \in shown )
    => \A i \in DOMAIN markers : markers[i].id = LastShowCall(latestMessage)

\* C33: when the effect has seen the assistant's satellite tool for a user
\* request, the timer and the intent of the fallback are cleared, and no
\* synthetic message is appended for that request afterwards, also when
\* the fallback had fired and was waiting for its geocoding
C33_FallbackCancelled ==
    /\ [][(effectDue /\ ~effectDue' /\ sawSatellite)
            => /\ ~satelliteFallbackTimer'.pending
               /\ pendingSatelliteIntent' = "null"]_vars
    /\ [][Len(messages') > Len(messages)
            => messages'[Len(messages')].id
                 \notin { SyntheticId(r) : r \in serverLed }]_vars

\* the markers of ms other than those of the id
Others(ms, id) == SelectSeq(ms, LAMBDA m : m.id # id)

\* C34: the marker ids are pairwise distinct; a call that changes the
\* markers either empties the list (clearMarkers) or leaves the new marker
\* at the end, with no other marker of its id and with all other markers
\* as they were and in their order (addMarker)
C34_MarkerIdsDistinct ==
    /\ [](\A i, j \in DOMAIN markers : i # j => markers[i].id # markers[j].id)
    /\ [][markers' # markers
            => \/ markers' = <<>>
               \/ LET new == markers'[Len(markers')]
                  IN  /\ Others(markers', new.id) = Others(markers, new.id)
                      /\ Others(markers', new.id) = SubSeq(markers', 1, Len(markers') - 1)]_vars

\* the marker of an id that was first in the list has been added again with
\* another label: it is now last, behind the marker that was second
C34_Witness ==
    /\ Len(markers) = 2
    /\ markers[1] = [id |-> <<"marker", "2">>, label |-> <<"Paris">>]
    /\ markers[2] = [id |-> <<"marker", "1">>, label |-> <<"Rome">>]
    /\ pointOfView = <<"marker", "1">>

(* ---------------- properties of the viewer ---------------- *)

\* the step calls onAnalysisComplete
AnalysisSent == Len(analysisCalls') > Len(analysisCalls)

\* C35: onAnalysisComplete is called at most once per timeline that was
\* fetched, and only when the autoplay is done and a detection is stored
\* for every index of the timeline; its points are one per item of the
\* timeline, in ascending order of the index
C35_AnalysisOncePerTimeline ==
    [][AnalysisSent
        => LET call == analysisCalls'[Len(analysisCalls')]
           IN  /\ autoplayDone'
               /\ DOMAIN detections' = 0..(Len(timeline') - 1)
               /\ Len(call.points) = Len(timeline')
               /\ \A n \in DOMAIN call.points :
                     call.points[n] = [ date |-> detections'[n - 1].date,
                                        count |-> detections'[n - 1].boxes ]
               /\ \A k \in DOMAIN analysisCalls :
                     analysisCalls[k].load # call.load]_vars

\* the run of the load id has requested the detection of another index, and
\* that index is shown
AutoplayVisits(id) ==
    /\ id \in DOMAIN requestLog'
    /\ requestLog'[id] # <<>>
    /\ id \in DOMAIN requestLog => Len(requestLog'[id]) > Len(requestLog[id])
    /\ currentIndex' = requestLog'[id][Len(requestLog'[id])]

\* within a run the indices are requested in the order 0, 1, 2, ...; the
\* request for an index is issued only when all requests before it have
\* settled; a run that ends without being cancelled has had a request
\* settle for every index of its timeline, whether the detections were
\* good or failed; the buttons and the slider are used only when
\* autoplayDone is true
AutoplaySequential ==
    /\ [](\A id \in DOMAIN requestLog :
            /\ \A n \in DOMAIN requestLog[id] : requestLog[id][n] = n - 1
            /\ Len(settleLog[id]) <= Len(requestLog[id])
            /\ Len(requestLog[id]) <= Len(settleLog[id]) + 1
            /\ \A n \in DOMAIN settleLog[id] : settleLog[id][n] = requestLog[id][n])
    /\ [][\A r \in runs :
            (~r.cancelled /\ ~\E q \in runs' : q.id = r.id)
                => Len(settleLog'[r.id]) = Len(r.timeline)]_vars
    /\ [][lastControl' # lastControl => autoplayDone]_vars

\* C36 as stated: the autoplay is sequential, and until autoplayDone is
\* true currentIndex changes only through the autoplay
C36_Original ==
    /\ AutoplaySequential
    /\ [][(~autoplayDone /\ currentIndex' # currentIndex)
            => \E id \in DOMAIN requestLog' : AutoplayVisits(id)]_vars

\* C36: the autoplay is sequential, and until autoplayDone is true
\* currentIndex changes only through the autoplay or through the load of a
\* timeline, which sets it to 0
C36_SequentialAutoplay ==
    /\ AutoplaySequential
    /\ [][(~autoplayDone /\ currentIndex' # currentIndex)
            => \/ \E id \in DOMAIN requestLog' : AutoplayVisits(id)
               \/ loads' = loads + 1 /\ currentIndex' = 0]_vars

\* the detection of item 0 has failed and the run has gone on to item 1
C36_Witness ==
    /\ ~autoplayDone
    /\ loads = 1
    /\ requestLog[1] = <<0, 1>>
    /\ settleLog[1] = <<0>>
    /\ detections = NoDetections
    /\ currentIndex = 1

\* C37: the load of a timeline that is not empty starts a run of the
\* autoplay over that timeline; every stored detection belongs to the item
\* of its index in the current timeline; the points handed to
\* onAnalysisComplete come from the items of the current timeline only
C37_AnalysisPerTimeline ==
    /\ [][(loads' = loads + 1 /\ Len(timeline') > 0)
            => \E r \in runs' : /\ r.id = loads'
                                /\ r.timeline = timeline'
                                /\ ~r.cancelled]_vars
    /\ [](\A i \in DOMAIN detections :
            /\ i < Len(timeline)
            /\ detections[i].date = At(timeline, i))
    /\ [][AnalysisSent
            => LET call == analysisCalls'[Len(analysisCalls')]
               IN  \A n \in DOMAIN call.points :
                     \E i \in 0..(Len(timeline') - 1) :
                        call.points[n].date = At(timeline', i)]_vars

(* ---------------- the order of the tool side effects ---------------- *)

\* the completed part has been run by the effect
Executed(part) ==
    /\ part.state = "output-available"
    /\ \E n \in DOMAIN executions : executions[n].toolCallId = part.toolCallId

\* the part has closed the globe and cleared the markers
Closes(part) ==
    /\ ToolNameOf(part) \in { <<"close_globe">>, <<"get_satellite_timeline">> }
    /\ Executed(part)

\* the part has opened the globe and shown its marker
Shows(part) ==
    /\ ToolNameOf(part) = <<"show_location_on_globe">>
    /\ Executed(part)
    /\ part.toolCallId \in shown

\* the tool parts of the latest message that have changed the globe
EffectiveParts ==
    { j \in DOMAIN latestMessage.parts :
        /\ IsToolPart(latestMessage.parts[j])
        /\ Closes(latestMessage.parts[j]) \/ Shows(latestMessage.parts[j]) }

\* every tool part of the latest message has completed, and nothing that
\* a part has started is still under way
AllCompleted ==
    /\ messages # <<>>
    /\ latestMessage.role = "assistant"
    /\ ~effectDue
    /\ geocoding = {}
    /\ markerTimers = <<>>
    /\ \A j \in DOMAIN latestMessage.parts :
          IsToolPart(latestMessage.parts[j])
              => latestMessage.parts[j].state = "output-available"

\* C38: once all tool parts of the latest assistant message have completed,
\* the globe and the markers are as the last part that changed them leaves
\* them when the parts are applied in their order: closed and without
\* markers after close_globe or get_satellite_timeline, open with the one
\* marker of the part after show_location_on_globe (where no viewer of the
\* message closes the globe by itself)
C38_EffectsInPartOrder ==
    (AllCompleted /\ EffectiveParts # {})
        => LET last == CHOOSE j \in EffectiveParts :
                          \A k \in EffectiveParts : k <= j
               part == latestMessage.parts[last]
           IN  IF Closes(part)
               THEN ~isGlobeOpen /\ markers = <<>>
               ELSE (\A j \in DOMAIN latestMessage.parts :
                        latestMessage.parts[j].type # SatelliteTool)
                       => /\ isGlobeOpen
                          /\ markers = << [id |-> part.toolCallId,
                                           label |-> <<"Paris">>] >>

(* ---------------- the navigation of the viewer ---------------- *)

RECURSIVE Times(_, _, _)
\* goToNext called n times, from the index prev
Times(n, prev, len) ==
    IF n = 0 THEN prev ELSE Times(n - 1, goToNext(prev, len), len)

\* C39: with a timeline that is not empty and an index within it, goToNext
\* and goToPrevious give an index within 0..len-1; next from the last
\* index gives 0 and previous from 0 gives len-1; each undoes the other;
\* len calls of goToNext give the index again. A click on a button leaves
\* currentIndex at what the function gives
C39_NavigationWraps ==
    /\ [](ControlsEnabled =>
            LET len == Len(timeline)
                i == currentIndex
            IN  /\ goToNext(i, len) \in 0..(len - 1)
                /\ goToPrevious(i, len) \in 0..(len - 1)
                /\ goToNext(len - 1, len) = 0
                /\ goToPrevious(0, len) = len - 1
                /\ goToPrevious(goToNext(i, len), len) = i
                /\ goToNext(goToPrevious(i, len), len) = i
                /\ Times(len, i, len) = i)
    /\ [][lastControl' # lastControl
            => /\ currentIndex' \in 0..(Len(timeline) - 1)
               /\ lastControl' = "next"
                     => currentIndex' = (currentIndex + 1) % Len(timeline)
               /\ lastControl' = "previous"
                     => currentIndex = (currentIndex' + 1) % Len(timeline)]_vars

\* the next button has been clicked at the last of two items: the first
\* item is shown
C39_Witness ==
    /\ Len(timeline) = 2
    /\ autoplayDone
    /\ lastControl = "next"
    /\ currentIndex = 0

============================================================================
